---- MODULE Spec2Model ----
(***************************************************************************)
(* GroundTruth route planner: the client-side orchestration of App.tsx.    *)
(* The React state of the App component is the state of the machine; every *)
(* event handler and every continuation of an awaited request is one       *)
(* action (single event loop: a handler runs to its next await).           *)
(***************************************************************************)
EXTENDS Integers, Sequences, FiniteSets, TLC

VARIABLES
    start, end, travelMode,          \* useState: App.tsx 68-70
    startPlace, endPlace,            \* useState: App.tsx 76-77
    routeChoices, selectedRouteId,   \* useState: App.tsx 79-80
    routeMarkers, mapBounds,         \* useState: App.tsx 81-82
    loading, geocoding, error,       \* useState: App.tsx 83-85
    geoStatus, hasDefaultedStart,    \* App.tsx 87, 104
    routeCall,                       \* the handleRoute call suspended at its Promise.all, and
                                     \* how often it has requested each variant
    routeMarkerFetches,              \* handleRoute calls suspended at fetchRouteMarkers
    effectFetch,                     \* the marker effect's run() suspended at fetchRouteMarkers
    geoRequests,                     \* handlePlaceSearch calls suspended at geocodePlace
    computedFrom,                    \* history: the request parameters behind routeChoices
    lastPointStep,                   \* history: the handler that last assigned start or end
    oracle, results,                 \* the services' answers; results of completed calls
    hazardPickMode, hazardLocation,  \* useState: App.tsx 98, 101
    hazardUploading,                 \* useState: App.tsx 91
    reverseRequest,                  \* the reverseGeocode call of the device default, in flight
    startEverSet,                    \* history: start was assigned by a click, an edit or a geocode
    fixLog,                          \* history: the location fixes and the defaults they assigned
    clickTrail,                      \* history: the points clicked since start and end were both unset
    markerLog                        \* history: the marker requests the last step sent

appVars == <<start, end, travelMode, startPlace, endPlace, routeChoices,
             selectedRouteId, routeMarkers, mapBounds, loading, geocoding, error,
             geoStatus, hasDefaultedStart, routeCall, routeMarkerFetches,
             effectFetch, geoRequests, computedFrom, lastPointStep>>
aggVars == <<oracle, results>>
hazardVars == <<hazardPickMode, hazardLocation, hazardUploading>>
deviceVars == <<reverseRequest, startEverSet, fixLog>>
otherVars == <<aggVars, hazardVars, deviceVars, clickTrail, markerLog>>
vars == <<appVars, otherVars>>

(***************************************************************************)
(* Bounds of the model.                                                    *)
(***************************************************************************)
MaxCoords == 2          \* longest coordinate sequence of a route result
MaxRuns == 2            \* routing calls per behaviour of SpecAgg
MaxMarkerFetches == 1   \* handleRoute marker requests in flight at once
MaxGeoRequests == 1     \* geocode requests in flight at once, per field
MaxFixes == 2           \* location fixes per behaviour of SpecLoc

(***************************************************************************)
(* Values.  nil is JavaScript's null where the value is an object, null    *)
(* where it is a string.                                                   *)
(***************************************************************************)
nil == [null |-> TRUE]
null == "null"

Range(s) == {s[i] : i \in 1..Len(s)}

RECURSIVE Join(_, _)
\* Array.prototype.join
Join(strs, sep) ==
    IF Len(strs) = 0 THEN ""
    ELSE IF Len(strs) = 1 THEN strs[1]
    ELSE strs[1] \o sep \o Join(Tail(strs), sep)

\* Array.prototype.findIndex over the indices that satisfy the predicate,
\* 1-based; 0 when there is none
FindIndex(hits) ==
    IF hits = {} THEN 0 ELSE CHOOSE i \in hits : \A j \in hits : i <= j

(***************************************************************************)
(* Route variant kinds, their labels and colours.                          *)
(***************************************************************************)
routeKindLabels ==
    [walkSafe |-> "Safe", walkAccessible |-> "Accessible",
     walkSafeAccessible |-> "Safe + Accessible",
     driveFast |-> "Fastest", driveSafe |-> "Safe"]

routeColors ==
    [walkSafe |-> "#16a34a", walkAccessible |-> "#1e3a8a",
     walkSafeAccessible |-> "#1f6feb",
     driveFast |-> "#1f6feb", driveSafe |-> "#16a34a"]

TravelModes == {"WALK", "DRIVE"}

\* the variants of a routing call, in request order
Variants(mode) ==
    IF mode = "DRIVE" THEN <<"driveFast", "driveSafe">>
    ELSE <<"walkSafe", "walkAccessible", "walkSafeAccessible">>

\* kindOrder: the canonical rank order of the kinds
KindOrder(mode) ==
    IF mode = "DRIVE" THEN <<"driveFast", "driveSafe">>
    ELSE <<"walkSafeAccessible", "walkSafe", "walkAccessible">>

PreferredKind(mode) ==
    IF mode = "DRIVE" THEN "driveFast" ELSE "walkSafeAccessible"

(***************************************************************************)
(* JSON.stringify of result.routeGeojson.geometry.coordinates, a list of   *)
(* [lon, lat] pairs of finite numbers.                                     *)
(***************************************************************************)
StringifyPairNoComma(p) == "[" \o ToString(p[1]) \o ToString(p[2]) \o "]"

StringifyPair(p) == "[" \o ToString(p[1]) \o "," \o ToString(p[2]) \o "]"

StringifyCoords(coords) ==
    "[" \o Join([i \in 1..Len(coords) |-> StringifyPair(coords[i])], ",") \o "]"

(***************************************************************************)
(* handleRoute after its join: the aggregation of the responses.           *)
(***************************************************************************)
\* Promise.all: the array of results, by request index
PromiseAllByArrival(settled, arrival) ==
    [i \in 1..Len(arrival) |-> settled[arrival[i]]]

PromiseAll(settled, arrival) == [i \in 1..Len(arrival) |-> settled[i]]

\* the message pushed to errorMessages for a response that is not ok
FailureMessage(kind, response) ==
    IF response.kind = "no_route"
    THEN IF response.message # ""
         THEN "No " \o routeKindLabels[kind] \o " route: " \o response.message
         ELSE "No route found."
    ELSE routeKindLabels[kind] \o " route error: " \o response.message

RECURSIVE OkRoutesFrom(_, _, _)
OkRoutesFrom(variants, responses, i) ==
    IF i > Len(responses) THEN <<>>
    ELSE (IF responses[i].kind = "ok"
          THEN <<[kind |-> variants[i], result |-> responses[i].data]>>
          ELSE <<>>) \o OkRoutesFrom(variants, responses, i + 1)

OkRoutes(variants, responses) == OkRoutesFrom(variants, responses, 1)

RECURSIVE ErrorMessagesFrom(_, _, _)
ErrorMessagesFrom(variants, responses, i) ==
    IF i > Len(responses) THEN <<>>
    ELSE (IF responses[i].kind = "ok"
          THEN <<>>
          ELSE <<FailureMessage(variants[i], responses[i])>>)
         \o ErrorMessagesFrom(variants, responses, i + 1)

ErrorMessagesReversed(variants, responses) ==
    LET m == ErrorMessagesFrom(variants, responses, 1)
    IN  [i \in 1..Len(m) |-> m[Len(m) + 1 - i]]

ErrorMessages(variants, responses) == ErrorMessagesFrom(variants, responses, 1)

\* one okRoutes.forEach step on the consolidated Map (kept in insertion order)
ConsolidateNoMerge(acc, route) ==
    Append(acc, [key |-> StringifyCoords(route.result.coordinates),
                 kinds |-> <<route.kind>>, result |-> route.result])

ConsolidateStep(acc, route) ==
    LET key == StringifyCoords(route.result.coordinates)
    IN  IF \E j \in 1..Len(acc) : acc[j].key = key
        THEN LET j == CHOOSE j \in 1..Len(acc) : acc[j].key = key
             IN  [acc EXCEPT ![j].kinds = Append(@, route.kind)]
        ELSE Append(acc, [key |-> key, kinds |-> <<route.kind>>,
                          result |-> route.result])

RECURSIVE ConsolidateFrom(_, _, _)
ConsolidateFrom(okRoutes, i, acc) ==
    IF i > Len(okRoutes) THEN acc
    ELSE ConsolidateFrom(okRoutes, i + 1, ConsolidateStep(acc, okRoutes[i]))

Consolidated(okRoutes) == ConsolidateFrom(okRoutes, 1, <<>>)

ChoiceOfRequestOrder(mode, entry) ==
    LET orderedKinds == entry.kinds
    IN  [id |-> Join(orderedKinds, "-"),
         kinds |-> orderedKinds,
         result |-> entry.result,
         color |-> IF Len(orderedKinds) > 0 THEN routeColors[orderedKinds[1]]
                   ELSE "#1f6feb",
         label |-> Join([i \in 1..Len(orderedKinds) |->
                            routeKindLabels[orderedKinds[i]]], " · ")]

ChoiceOfLastColor(mode, entry) ==
    LET InEntry(kind) == kind \in Range(entry.kinds)
        orderedKinds == SelectSeq(KindOrder(mode), InEntry)
    IN  [id |-> Join(orderedKinds, "-"),
         kinds |-> orderedKinds,
         result |-> entry.result,
         color |-> IF Len(orderedKinds) > 0
                   THEN routeColors[orderedKinds[Len(orderedKinds)]]
                   ELSE "#1f6feb",
         label |-> Join([i \in 1..Len(orderedKinds) |->
                            routeKindLabels[orderedKinds[i]]], " · ")]

\* the RouteChoice of one consolidated entry
ChoiceOf(mode, entry) ==
    LET InEntry(kind) == kind \in Range(entry.kinds)
        orderedKinds == SelectSeq(KindOrder(mode), InEntry)
    IN  [id |-> Join(orderedKinds, "-"),
         kinds |-> orderedKinds,
         result |-> entry.result,
         color |-> IF Len(orderedKinds) > 0 THEN routeColors[orderedKinds[1]]
                   ELSE "#1f6feb",
         label |-> Join([i \in 1..Len(orderedKinds) |->
                            routeKindLabels[orderedKinds[i]]], " · ")]

\* the sort key of choices.sort: the index in kindOrder of the choice's best kind
BestIndex(mode, choice) ==
    LET kindOrder == KindOrder(mode)
    IN  FindIndex({i \in 1..Len(kindOrder) : kindOrder[i] \in Range(choice.kinds)})

RECURSIVE InsertSorted(_, _, _)
InsertSorted(mode, sorted, choice) ==
    IF Len(sorted) = 0 THEN <<choice>>
    ELSE IF BestIndex(mode, choice) - BestIndex(mode, sorted[Len(sorted)]) < 0
         THEN Append(InsertSorted(mode, SubSeq(sorted, 1, Len(sorted) - 1), choice),
                     sorted[Len(sorted)])
         ELSE Append(sorted, choice)

RECURSIVE SortFrom(_, _, _, _)
SortFrom(mode, choices, i, acc) ==
    IF i > Len(choices) THEN acc
    ELSE SortFrom(mode, choices, i + 1, InsertSorted(mode, acc, choices[i]))

SortChoicesNone(mode, choices) == choices

\* choices.sort((a, b) => aIndex - bIndex), a stable sort
SortChoices(mode, choices) == SortFrom(mode, choices, 1, <<>>)

Choices(mode, okRoutes) ==
    LET consolidated == Consolidated(okRoutes)
    IN  SortChoices(mode, [i \in 1..Len(consolidated) |->
                                 ChoiceOf(mode, consolidated[i])])

DefaultSelectionNoFallback(mode, choices) ==
    LET at == FindIndex({i \in 1..Len(choices) :
                            PreferredKind(mode) \in Range(choices[i].kinds)})
    IN  IF at > 0 THEN choices[at].id ELSE null

DefaultSelectionLast(mode, choices) ==
    IF Len(choices) > 0 THEN choices[Len(choices)].id ELSE null

DefaultSelectionPreferredKind(mode, choices) == PreferredKind(mode)

\* defaultChoice?.id ?? choices[0]?.id ?? null
DefaultSelection(mode, choices) ==
    LET at == FindIndex({i \in 1..Len(choices) :
                            PreferredKind(mode) \in Range(choices[i].kinds)})
    IN  IF at > 0 THEN choices[at].id
        ELSE IF Len(choices) > 0 THEN choices[1].id
        ELSE null


(***************************************************************************)
(* Coordinates and their text fields.                                      *)
(***************************************************************************)
\* the numbers whose text the user types
Numerals == {10, 95}

isValidLonAny(value) == TRUE

isValidLat(value) == value >= -90 /\ value <= 90
isValidLon(value) == value >= -180 /\ value <= 180

\* Number.prototype.toFixed(6), on the whole numbers of the model
formatCoord(value) == ToString(value) \o ".000000"

\* Number(value) when finite ([value |-> n]), else nil; Number("") is 0
parseNumber(value) ==
    IF value = "" THEN [value |-> 0]
    ELSE IF \E n \in Numerals : value = ToString(n) \/ value = formatCoord(n)
         THEN [value |-> CHOOSE n \in Numerals :
                             value = ToString(n) \/ value = formatCoord(n)]
         ELSE nil

Point(lat, lon) == [lat |-> lat, lon |-> lon]

(***************************************************************************)
(* The marker refresh effect (deps: mapBounds, routeChoices).  A change of *)
(* either dependency runs the cleanup of the previous run (cancelled =     *)
(* true) and runs the effect again.  One slot holds the latest request in  *)
(* flight: a cancelled request writes nothing when it completes, so only   *)
(* the fact that one is in flight is kept of it, and the one a newer       *)
(* request replaces is not kept.                                           *)
(***************************************************************************)
CancelledFetch == [cancelled |-> TRUE]

MarkerEffectUnguarded(bounds, choices) ==
    [bounds |-> bounds, choices |-> choices, cancelled |-> FALSE]

MarkerEffect(bounds, choices) ==
    IF bounds # nil /\ Len(choices) > 0
    THEN [bounds |-> bounds, choices |-> choices, cancelled |-> FALSE]
    ELSE IF effectFetch # nil THEN CancelledFetch ELSE nil

EmptyMarkers == [id \in {} |-> nil]

BroadcastFirst(choices, data) ==
    [id \in {choices[i].id : i \in 1..Len(choices) \cap {1}} |-> data]

\* nextMarkers: the response's data under the id of every choice
Broadcast(choices, data) ==
    [id \in {choices[i].id : i \in 1..Len(choices)} |-> data]

(***************************************************************************)
(* clearRouteState, followed by the handler's own setError if it has one   *)
(* (finalError; null when the handler sets none).                          *)
(***************************************************************************)
ClearRouteStateKeepsError(finalError) ==
    /\ routeChoices' = <<>>
    /\ selectedRouteId' = null
    /\ routeMarkers' = EmptyMarkers
    /\ error' = IF finalError = null THEN error ELSE finalError
    /\ computedFrom' = nil
    /\ effectFetch' = MarkerEffect(mapBounds, <<>>)

ClearRouteState(finalError) ==
    /\ routeChoices' = <<>>
    /\ selectedRouteId' = null
    /\ routeMarkers' = EmptyMarkers
    /\ error' = finalError
    /\ computedFrom' = nil
    /\ effectFetch' = MarkerEffect(mapBounds, <<>>)

\* history of the last step: which handler assigned start or end, and what the
\* route state was when it ran
IdleStep ==
    [handler |-> "none", hadRoutes |-> FALSE, hadMarkers |-> FALSE,
     hadError |-> FALSE]

NoPointStep == lastPointStep' = IdleStep

Step(handler) ==
    lastPointStep' = [handler |-> handler, hadRoutes |-> Len(routeChoices) > 0,
                      hadMarkers |-> routeMarkers # EmptyMarkers,
                      hadError |-> error # null]

(***************************************************************************)
(* Point selection.                                                        *)
(***************************************************************************)
handleMapClickNoReset(lat, lon) ==
    /\ ClearRouteState(null)
    /\ IF start = nil
       THEN /\ start' = Point(lat, lon)
            /\ startPlace' = ""
            /\ UNCHANGED <<end, endPlace>>
       ELSE /\ end' = Point(lat, lon)
            /\ endPlace' = ""
            /\ UNCHANGED <<start, startPlace>>
    /\ Step("handleMapClick")
    /\ UNCHANGED <<travelMode, mapBounds, loading, geocoding, geoStatus,
                   hasDefaultedStart, routeCall, routeMarkerFetches, geoRequests>>

handleMapClick(lat, lon) ==
    /\ ClearRouteState(null)
    /\ IF start = nil
       THEN /\ start' = Point(lat, lon)
            /\ startPlace' = ""
            /\ UNCHANGED <<end, endPlace>>
       ELSE IF end = nil
       THEN /\ end' = Point(lat, lon)
            /\ endPlace' = ""
            /\ UNCHANGED <<start, startPlace>>
       ELSE /\ start' = Point(lat, lon)
            /\ end' = nil
            /\ startPlace' = ""
            /\ endPlace' = ""
    /\ Step("handleMapClick")
    /\ UNCHANGED <<travelMode, mapBounds, loading, geocoding, geoStatus,
                   hasDefaultedStart, routeCall, routeMarkerFetches, geoRequests>>

PointFromInputs(nextLat, nextLon) ==
    LET latValue == parseNumber(nextLat)
        lonValue == parseNumber(nextLon)
    IN  IF latValue # nil /\ lonValue # nil
        THEN IF isValidLat(latValue.value) /\ isValidLon(lonValue.value)
             THEN Point(latValue.value, lonValue.value)
             ELSE nil
        ELSE nil

updateStartFromInputs(nextLat, nextLon) ==
    /\ start' = PointFromInputs(nextLat, nextLon)
    /\ startPlace' = ""
    /\ ClearRouteState(null)
    /\ Step("updateStartFromInputs")
    /\ UNCHANGED <<end, endPlace, travelMode, mapBounds, loading, geocoding,
                   geoStatus, hasDefaultedStart, routeCall, routeMarkerFetches,
                   geoRequests>>

updateEndFromInputs(nextLat, nextLon) ==
    /\ end' = PointFromInputs(nextLat, nextLon)
    /\ endPlace' = ""
    /\ ClearRouteState(null)
    /\ Step("updateEndFromInputs")
    /\ UNCHANGED <<start, startPlace, travelMode, mapBounds, loading, geocoding,
                   geoStatus, hasDefaultedStart, routeCall, routeMarkerFetches,
                   geoRequests>>

handleClear ==
    /\ start' = nil
    /\ end' = nil
    /\ startPlace' = ""
    /\ endPlace' = ""
    /\ geocoding' = null
    /\ routeChoices' = <<>>
    /\ selectedRouteId' = null
    /\ routeMarkers' = EmptyMarkers
    /\ error' = null
    /\ computedFrom' = nil
    /\ effectFetch' = MarkerEffect(mapBounds, <<>>)
    /\ Step("handleClear")
    /\ UNCHANGED <<travelMode, mapBounds, loading, geoStatus, hasDefaultedStart,
                   routeCall, routeMarkerFetches, geoRequests>>


(***************************************************************************)
(* Place search: handlePlaceSearch up to its await, and its continuation.  *)
(***************************************************************************)
setPlace(kind, text) ==
    /\ IF kind = "start"
       THEN startPlace' = text /\ UNCHANGED endPlace
       ELSE endPlace' = text /\ UNCHANGED startPlace
    /\ UNCHANGED <<start, end, travelMode, routeChoices, selectedRouteId,
                   routeMarkers, mapBounds, loading, geocoding, error, geoStatus,
                   hasDefaultedStart, routeCall, routeMarkerFetches, effectFetch,
                   geoRequests, computedFrom>>
    /\ NoPointStep

handlePlaceSearch(kind) ==
    LET query == IF kind = "start" THEN startPlace ELSE endPlace
    IN  IF query = ""
        THEN /\ error' = "Please enter a place name."
             /\ NoPointStep
             /\ UNCHANGED <<start, end, travelMode, startPlace, endPlace,
                            routeChoices, selectedRouteId, routeMarkers, mapBounds,
                            loading, geocoding, geoStatus, hasDefaultedStart,
                            routeCall, routeMarkerFetches, effectFetch, geoRequests,
                            computedFrom>>
        ELSE /\ geoRequests[kind] < MaxGeoRequests
             /\ ClearRouteState(null)
             /\ geocoding' = kind
             /\ geoRequests' = [geoRequests EXCEPT ![kind] = @ + 1]
             /\ NoPointStep
             /\ UNCHANGED <<start, end, travelMode, startPlace, endPlace, mapBounds,
                            loading, geoStatus, hasDefaultedStart, routeCall,
                            routeMarkerFetches>>

applyGeocodeResult(kind, lat, lon, label) ==
    IF kind = "start"
    THEN /\ start' = Point(lat, lon)
         /\ startPlace' = label
         /\ UNCHANGED <<end, endPlace>>
    ELSE /\ end' = Point(lat, lon)
         /\ endPlace' = label
         /\ UNCHANGED <<start, startPlace>>

geocodeSettlesNoRangeCheck(kind, result) ==
    /\ geoRequests[kind] > 0
    /\ geoRequests' = [geoRequests EXCEPT ![kind] = @ - 1]
    /\ geocoding' = null
    /\ IF result.kind = "ok"
       THEN /\ applyGeocodeResult(kind, result.data.lat, result.data.lon,
                                  result.data.label)
            /\ Step("applyGeocodeResult")
            /\ UNCHANGED error
       ELSE /\ error' = result.message
            /\ NoPointStep
            /\ UNCHANGED <<start, end, startPlace, endPlace>>
    /\ UNCHANGED <<travelMode, routeChoices, selectedRouteId, routeMarkers,
                   mapBounds, loading, geoStatus, hasDefaultedStart, routeCall,
                   routeMarkerFetches, effectFetch, computedFrom>>

\* the continuation of handlePlaceSearch after await geocodePlace(query)
geocodeSettles(kind, result) ==
    /\ geoRequests[kind] > 0
    /\ geoRequests' = [geoRequests EXCEPT ![kind] = @ - 1]
    /\ geocoding' = null
    /\ IF result.kind = "ok"
       THEN IF ~isValidLat(result.data.lat) \/ ~isValidLon(result.data.lon)
            THEN /\ error' = "Geocoder returned out-of-range coordinates."
                 /\ NoPointStep
                 /\ UNCHANGED <<start, end, startPlace, endPlace>>
            ELSE /\ applyGeocodeResult(kind, result.data.lat, result.data.lon,
                                       result.data.label)
                 /\ Step("applyGeocodeResult")
                 /\ UNCHANGED error
       ELSE /\ error' = result.message
            /\ NoPointStep
            /\ UNCHANGED <<start, end, startPlace, endPlace>>
    /\ UNCHANGED <<travelMode, routeChoices, selectedRouteId, routeMarkers,
                   mapBounds, loading, geoStatus, hasDefaultedStart, routeCall,
                   routeMarkerFetches, effectFetch, computedFrom>>

\* MapView's onHazardPick prop
onHazardPick(lat, lon) ==
    /\ hazardPickMode' = FALSE
    /\ hazardLocation' = Point(lat, lon)
    /\ UNCHANGED hazardUploading
    /\ NoPointStep
    /\ UNCHANGED <<start, end, travelMode, startPlace, endPlace, routeChoices,
                   selectedRouteId, routeMarkers, mapBounds, loading, geocoding,
                   error, geoStatus, hasDefaultedStart, routeCall,
                   routeMarkerFetches, effectFetch, geoRequests, computedFrom>>

toggleHazardPickClears ==
    /\ hazardPickMode' = ~hazardPickMode
    /\ NoPointStep
    /\ ClearRouteState(null)
    /\ UNCHANGED <<start, end, travelMode, startPlace, endPlace, mapBounds, loading,
                   geocoding, geoStatus, hasDefaultedStart, routeCall,
                   routeMarkerFetches, geoRequests, hazardLocation, hazardUploading>>

\* the hazard panel's "Pick location on map" button
toggleHazardPick ==
    /\ hazardPickMode' = ~hazardPickMode
    /\ NoPointStep
    /\ UNCHANGED <<start, end, travelMode, startPlace, endPlace, routeChoices,
                   selectedRouteId, routeMarkers, mapBounds, loading, geocoding,
                   error, geoStatus, hasDefaultedStart, routeCall,
                   routeMarkerFetches, effectFetch, geoRequests, computedFrom,
                   hazardLocation, hazardUploading>>

mapClickNoPriority(lat, lon) == handleMapClick(lat, lon) /\ UNCHANGED hazardVars

\* MapEventHandler's click handler
mapClick(lat, lon) ==
    IF hazardPickMode
    THEN onHazardPick(lat, lon)
    ELSE handleMapClick(lat, lon) /\ UNCHANGED hazardVars

(***************************************************************************)
(* The hazard panel.  Of handleHazardSubmit the model keeps what it does   *)
(* to hazardUploading, hazardPickMode and hazardLocation; valid says that  *)
(* the report passes the handler's checks of the file and the severity.    *)
(***************************************************************************)
hazardInputsDisabledNever == FALSE

hazardInputsDisabled == geoStatus # "ready" \/ hazardUploading

\* deviceLocation is set whenever geoStatus is 'ready'; the report mode and the
\* file are inputs of the submit
hazardSubmitDisabled == hazardInputsDisabled

\* handleHazardSubmit up to its await
handleHazardSubmit(valid) ==
    /\ hazardUploading' = (geoStatus = "ready" /\ valid)
    /\ NoPointStep
    /\ UNCHANGED <<start, end, travelMode, startPlace, endPlace, routeChoices,
                   selectedRouteId, routeMarkers, mapBounds, loading, geocoding,
                   error, geoStatus, hasDefaultedStart, routeCall,
                   routeMarkerFetches, effectFetch, geoRequests, computedFrom,
                   hazardPickMode, hazardLocation>>

\* handleHazardSubmit after its await: lines 438-442 or 456, 458-461 when the
\* upload succeeded (ok), the catch when it failed, and the finally
hazardSubmitSettles(ok) ==
    /\ hazardUploading
    /\ hazardUploading' = FALSE
    /\ IF ok
       THEN hazardPickMode' = FALSE /\ hazardLocation' = nil
       ELSE UNCHANGED <<hazardPickMode, hazardLocation>>
    /\ NoPointStep
    /\ UNCHANGED <<start, end, travelMode, startPlace, endPlace, routeChoices,
                   selectedRouteId, routeMarkers, mapBounds, loading, geocoding,
                   error, geoStatus, hasDefaultedStart, routeCall,
                   routeMarkerFetches, effectFetch, geoRequests, computedFrom>>

(***************************************************************************)
(* Device location: requestDeviceLocation and its two callbacks.  startRef *)
(* is start as of the last render, which is start between two events.      *)
(***************************************************************************)
requestDeviceLocation ==
    /\ geoStatus # "locating"
    /\ geoStatus' = "locating"
    /\ UNCHANGED <<start, end, travelMode, startPlace, endPlace, routeChoices,
                   selectedRouteId, routeMarkers, mapBounds, loading, geocoding,
                   error, hasDefaultedStart, routeCall, routeMarkerFetches,
                   effectFetch, geoRequests, computedFrom>>
    /\ NoPointStep

ShouldDefaultNoLatch(defaulted, currentStart) == currentStart = nil

ShouldDefaultIgnoresStart(defaulted, currentStart) == ~defaulted

\* !hasDefaultedStart.current && !currentStart
ShouldDefault(defaulted, currentStart) == ~defaulted /\ currentStart = nil

locationFix(lat, lon) ==
    /\ geoStatus = "locating"
    /\ geoStatus' = "ready"
    /\ IF ShouldDefault(hasDefaultedStart, start)
       THEN /\ start' = Point(lat, lon)
            /\ startPlace' = "Current location"
            /\ hasDefaultedStart' = TRUE
            /\ reverseRequest' = [defaultLocation |-> Point(lat, lon)]
            /\ Step("deviceDefault")
       ELSE /\ NoPointStep
            /\ UNCHANGED <<start, startPlace, hasDefaultedStart, reverseRequest>>
    /\ UNCHANGED <<end, travelMode, endPlace, routeChoices, selectedRouteId,
                   routeMarkers, mapBounds, loading, geocoding, error, routeCall,
                   routeMarkerFetches, effectFetch, geoRequests, computedFrom>>

Abs(x) == IF x < 0 THEN -x ELSE x

isSameLocationAlways(a, b) == TRUE

\* |a.lat - b.lat| < 1e-6 && |a.lon - b.lon| < 1e-6, coordinates in whole degrees
isSameLocation(a, b) ==
    /\ Abs(a.lat - b.lat) * 1000000 < 1
    /\ Abs(a.lon - b.lon) * 1000000 < 1

\* the continuation of reverseGeocode(lat, lon), lines 142-150
reverseGeocodeSettles(result) ==
    /\ reverseRequest # nil
    /\ reverseRequest' = nil
    /\ IF result.kind = "ok" /\ start # nil
          /\ isSameLocation(start, reverseRequest.defaultLocation)
       THEN startPlace' = result.label
       ELSE UNCHANGED startPlace
    /\ NoPointStep
    /\ UNCHANGED <<start, end, travelMode, endPlace, routeChoices, selectedRouteId,
                   routeMarkers, mapBounds, loading, geocoding, error, geoStatus,
                   hasDefaultedStart, routeCall, routeMarkerFetches, effectFetch,
                   geoRequests, computedFrom>>

locationError ==
    /\ geoStatus = "locating"
    /\ geoStatus' = "unavailable"
    /\ UNCHANGED <<start, end, travelMode, startPlace, endPlace, routeChoices,
                   selectedRouteId, routeMarkers, mapBounds, loading, geocoding,
                   error, hasDefaultedStart, routeCall, routeMarkerFetches,
                   effectFetch, geoRequests, computedFrom>>
    /\ NoPointStep

(***************************************************************************)
(* Travel mode, route selection, viewport.                                 *)
(***************************************************************************)
setTravelModeUnconditional(mode) ==
    /\ travelMode' = mode
    /\ ClearRouteState(null)
    /\ NoPointStep
    /\ UNCHANGED <<start, end, startPlace, endPlace, mapBounds, loading, geocoding,
                   geoStatus, hasDefaultedStart, routeCall, routeMarkerFetches,
                   geoRequests>>

\* onClick of the Walk and Drive buttons: if (travelMode !== mode) { ... }
setTravelMode(mode) ==
    /\ IF travelMode # mode
       THEN /\ travelMode' = mode
            /\ ClearRouteState(null)
       ELSE UNCHANGED <<travelMode, routeChoices, selectedRouteId, routeMarkers,
                        error, computedFrom, effectFetch>>
    /\ NoPointStep
    /\ UNCHANGED <<start, end, startPlace, endPlace, mapBounds, loading, geocoding,
                   geoStatus, hasDefaultedStart, routeCall, routeMarkerFetches,
                   geoRequests>>

\* onClick of a route option button: one button per current route choice
routeOptionClick(i) ==
    /\ i \in 1..Len(routeChoices)
    /\ selectedRouteId' = routeChoices[i].id
    /\ NoPointStep
    /\ UNCHANGED <<start, end, travelMode, startPlace, endPlace, routeChoices,
                   routeMarkers, mapBounds, loading, geocoding, error, geoStatus,
                   hasDefaultedStart, routeCall, routeMarkerFetches, effectFetch,
                   geoRequests, computedFrom>>

\* onSelectRoute from a polyline click: one polyline per choice with coordinates
polylineClick(i) ==
    /\ i \in 1..Len(routeChoices)
    /\ Len(routeChoices[i].result.coordinates) > 0
    /\ selectedRouteId' = routeChoices[i].id
    /\ NoPointStep
    /\ UNCHANGED <<start, end, travelMode, startPlace, endPlace, routeChoices,
                   routeMarkers, mapBounds, loading, geocoding, error, geoStatus,
                   hasDefaultedStart, routeCall, routeMarkerFetches, effectFetch,
                   geoRequests, computedFrom>>

handleBoundsChange(bounds) ==
    /\ mapBounds' = bounds
    /\ effectFetch' = MarkerEffect(bounds, routeChoices)
    /\ UNCHANGED <<start, end, travelMode, startPlace, endPlace, routeChoices,
                   selectedRouteId, routeMarkers, loading, geocoding, error,
                   geoStatus, hasDefaultedStart, routeCall, routeMarkerFetches,
                   geoRequests, computedFrom>>
    /\ NoPointStep


(***************************************************************************)
(* Routing: handleRoute up to its Promise.all, the settling of one variant *)
(* request, and the continuation after the join.                           *)
(***************************************************************************)
Pending == [kind |-> "pending", message |-> ""]

routeDisabledIgnoresLoading == start = nil \/ end = nil

routeDisabled == loading \/ start = nil \/ end = nil

handleRoute ==
    /\ Cardinality(routeMarkerFetches) < MaxMarkerFetches
    /\ NoPointStep
    /\ IF start = nil \/ end = nil
       THEN /\ ClearRouteState("Please set both a start and end location.")
            /\ UNCHANGED <<loading, routeCall>>
       ELSE IF ~isValidLat(start.lat) \/ ~isValidLon(start.lon)
               \/ ~isValidLat(end.lat) \/ ~isValidLon(end.lon)
       THEN /\ ClearRouteState("Coordinates are out of range.")
            /\ UNCHANGED <<loading, routeCall>>
       ELSE /\ ClearRouteState(null)
            /\ loading' = TRUE
            /\ routeCall' =
                   [mode |-> travelMode,
                    params |-> [start |-> start, end |-> end],
                    bounds |-> mapBounds,
                    requests |-> [i \in 1..Len(Variants(travelMode)) |-> 1],
                    settled |-> [i \in 1..Len(Variants(travelMode)) |-> Pending],
                    arrival |-> <<>>]
    /\ UNCHANGED <<start, end, travelMode, startPlace, endPlace, mapBounds,
                   geocoding, geoStatus, hasDefaultedStart, routeMarkerFetches,
                   geoRequests>>

SomeVariantFailed(okRoutes, responses) == Len(okRoutes) < Len(responses)

\* okRoutes.length === 0
NoOkRoutes(okRoutes, responses) == Len(okRoutes) = 0

\* lines 313-388 of handleRoute, run when the last variant request has settled
routeJoin(call, responses) ==
    LET variants == Variants(call.mode)
        okRoutes == OkRoutes(variants, responses)
        errorMessages == ErrorMessages(variants, responses)
        choices == Choices(call.mode, okRoutes)
    IN  /\ loading' = FALSE
        /\ routeCall' = nil
        /\ IF NoOkRoutes(okRoutes, responses)
           THEN /\ error' = IF Len(errorMessages) > 0 THEN errorMessages[1]
                            ELSE "No route found."
                /\ UNCHANGED <<routeChoices, selectedRouteId, computedFrom,
                               effectFetch, routeMarkerFetches>>
           ELSE /\ routeChoices' = choices
                /\ selectedRouteId' = DefaultSelection(call.mode, choices)
                /\ computedFrom' = call.params
                /\ effectFetch' = MarkerEffect(mapBounds, choices)
                /\ routeMarkerFetches' =
                       IF call.bounds # nil
                       THEN routeMarkerFetches
                            \cup {[bounds |-> call.bounds, choices |-> choices]}
                       ELSE routeMarkerFetches
                /\ UNCHANGED error

AnySettled(settled, arrival) == Len(arrival) >= 1

\* await Promise.all: the continuation runs once every request has settled
AllSettled(settled, arrival) == Len(arrival) = Len(settled)

variantSettlesRetries(i, outcome) ==
    /\ routeCall # nil
    /\ i \in 1..Len(routeCall.settled)
    /\ routeCall.settled[i] = Pending
    /\ NoPointStep
    /\ LET settled == [routeCall.settled EXCEPT ![i] = outcome]
           arrival == Append(routeCall.arrival, i)
       IN  IF outcome.kind # "ok" /\ routeCall.requests[i] < 2
           THEN /\ routeCall' = [routeCall EXCEPT !.requests[i] = @ + 1]
                /\ UNCHANGED <<routeChoices, selectedRouteId, loading, error,
                               computedFrom, effectFetch, routeMarkerFetches>>
           ELSE IF ~AllSettled(settled, arrival)
           THEN /\ routeCall' = [routeCall EXCEPT !.settled = settled,
                                                  !.arrival = arrival]
                /\ UNCHANGED <<routeChoices, selectedRouteId, loading, error,
                               computedFrom, effectFetch, routeMarkerFetches>>
           ELSE routeJoin(routeCall, PromiseAll(settled, arrival))
    /\ UNCHANGED <<start, end, travelMode, startPlace, endPlace, routeMarkers,
                   mapBounds, geocoding, geoStatus, hasDefaultedStart, geoRequests>>

variantSettles(i, outcome) ==
    /\ routeCall # nil
    /\ i \in 1..Len(routeCall.settled)
    /\ routeCall.settled[i] = Pending
    /\ NoPointStep
    /\ LET settled == [routeCall.settled EXCEPT ![i] = outcome]
           arrival == Append(routeCall.arrival, i)
       IN  IF ~AllSettled(settled, arrival)
           THEN /\ routeCall' = [routeCall EXCEPT !.settled = settled,
                                                  !.arrival = arrival]
                /\ UNCHANGED <<routeChoices, selectedRouteId, loading, error,
                               computedFrom, effectFetch, routeMarkerFetches>>
           ELSE routeJoin(routeCall, PromiseAll(settled, arrival))
    /\ UNCHANGED <<start, end, travelMode, startPlace, endPlace, routeMarkers,
                   mapBounds, geocoding, geoStatus, hasDefaultedStart, geoRequests>>

(***************************************************************************)
(* Completion of the marker requests.                                      *)
(***************************************************************************)
\* handleRoute lines 380-387
routeMarkersSettle(fetch, response) ==
    /\ fetch \in routeMarkerFetches
    /\ routeMarkerFetches' = routeMarkerFetches \ {fetch}
    /\ IF response.kind = "ok"
       THEN routeMarkers' = Broadcast(fetch.choices, response.data)
       ELSE UNCHANGED routeMarkers
    /\ NoPointStep
    /\ UNCHANGED <<start, end, travelMode, startPlace, endPlace, routeChoices,
                   selectedRouteId, mapBounds, loading, geocoding, error, geoStatus,
                   hasDefaultedStart, routeCall, effectFetch, geoRequests,
                   computedFrom>>

effectMarkersSettleClearsOnError(response) ==
    /\ effectFetch # nil
    /\ effectFetch' = nil
    /\ IF effectFetch.cancelled
       THEN UNCHANGED routeMarkers
       ELSE IF response.kind # "ok"
       THEN routeMarkers' = EmptyMarkers
       ELSE routeMarkers' = Broadcast(effectFetch.choices, response.data)
    /\ NoPointStep
    /\ UNCHANGED <<start, end, travelMode, startPlace, endPlace, routeChoices,
                   selectedRouteId, mapBounds, loading, geocoding, error, geoStatus,
                   hasDefaultedStart, routeCall, routeMarkerFetches, geoRequests,
                   computedFrom>>

\* the effect's run(), lines 555-563
effectMarkersSettle(response) ==
    /\ effectFetch # nil
    /\ effectFetch' = nil
    /\ IF effectFetch.cancelled \/ response.kind # "ok"
       THEN UNCHANGED routeMarkers
       ELSE routeMarkers' = Broadcast(effectFetch.choices, response.data)
    /\ NoPointStep
    /\ UNCHANGED <<start, end, travelMode, startPlace, endPlace, routeChoices,
                   selectedRouteId, mapBounds, loading, geocoding, error, geoStatus,
                   hasDefaultedStart, routeCall, routeMarkerFetches, geoRequests,
                   computedFrom>>


(***************************************************************************)
(* Inputs: what the user and the services can supply.                      *)
(***************************************************************************)
ClickPoints == {<<10, 10>>, <<10, 95>>}
EditTexts == {"10", "95"}
PlaceTexts == {"", "Ithaca Commons"}
Bounds == {[minLat |-> 0, maxLat |-> 50, minLon |-> 0, maxLon |-> 50]}
DevicePoints == {<<10, 10>>}

GeocodeResults ==
    {[kind |-> "ok", data |-> [lat |-> 10, lon |-> 95, label |-> "Ithaca Commons"]],
     [kind |-> "ok", data |-> [lat |-> 95, lon |-> 10, label |-> "Nowhere"]],
     [kind |-> "error", message |-> "Place not found."]}

MarkerResponses ==
    {[kind |-> "ok", data |-> [hazardMarkers |-> <<"h1">>, riskMarkers |-> <<>>]],
     [kind |-> "error", message |-> "Failed to fetch markers."]}

Ok(coords) == [kind |-> "ok", data |-> [coordinates |-> coords]]
NoRoute(message) == [kind |-> "no_route", message |-> message]
Failed(message) == [kind |-> "error", message |-> message]

\* the answers of the routing service in Spec
RouteOutcomes(i) ==
    {IF i = 2 THEN Ok(<<<<11, 1>>>>) ELSE Ok(<<<<1, 11>>>>), NoRoute("M1")}

\* the answers of the routing service in SpecAgg
CoordPairs == {<<1, 11>>, <<11, 1>>}
CoordSeqs == UNION {[1..n -> CoordPairs] : n \in 0..MaxCoords}
AggOutcomes ==
    {Ok(c) : c \in CoordSeqs}
    \cup {NoRoute("M1"), NoRoute("M2"), Failed("timeout")}

(***************************************************************************)
(* Spec: the App component from its first render on.                       *)
(***************************************************************************)
InitState(startPoint, endPoint, mode, status, defaulted) ==
    /\ start = startPoint
    /\ end = endPoint
    /\ travelMode = mode
    /\ startPlace = ""
    /\ endPlace = ""
    /\ routeChoices = <<>>
    /\ selectedRouteId = null
    /\ routeMarkers = EmptyMarkers
    /\ mapBounds = nil
    /\ loading = FALSE
    /\ geocoding = null
    /\ error = null
    /\ geoStatus = status
    /\ hasDefaultedStart = defaulted
    /\ routeCall = nil
    /\ routeMarkerFetches = {}
    /\ effectFetch = nil
    /\ geoRequests = [start |-> 0, end |-> 0]
    /\ computedFrom = nil
    /\ lastPointStep = IdleStep
    /\ hazardPickMode = FALSE
    /\ hazardLocation = nil
    /\ hazardUploading = FALSE
    /\ reverseRequest = nil
    /\ startEverSet = FALSE
    /\ fixLog = [fixes |-> 0, defaults |-> 0]
    /\ clickTrail = [tracked |-> TRUE, points |-> <<>>]
    /\ markerLog = <<>>

\* the mount effect has called requestDeviceLocation
InitWith(startPoint, endPoint, mode) ==
    InitState(startPoint, endPoint, mode, "locating", FALSE)

Init ==
    /\ InitWith(nil, nil, "WALK")
    /\ oracle = <<>>
    /\ results = [count |-> 0, seen |-> {}, first |-> <<>>, differed |-> FALSE]

MapClick ==
    /\ \E p \in ClickPoints : mapClick(p[1], p[2])
    /\ UNCHANGED <<aggVars, deviceVars, clickTrail, markerLog>>
EditStart ==
    /\ \E lat \in EditTexts, lon \in EditTexts : updateStartFromInputs(lat, lon)
    /\ UNCHANGED otherVars
EditEnd ==
    /\ \E lat \in EditTexts, lon \in EditTexts : updateEndFromInputs(lat, lon)
    /\ UNCHANGED otherVars
Clear == handleClear /\ UNCHANGED otherVars
TypePlace ==
    /\ \E kind \in {"start", "end"}, text \in PlaceTexts : setPlace(kind, text)
    /\ UNCHANGED otherVars
PlaceSearch ==
    /\ \E kind \in {"start", "end"} : handlePlaceSearch(kind)
    /\ UNCHANGED otherVars
GeocodeSettles ==
    /\ \E kind \in {"start", "end"}, result \in GeocodeResults :
           geocodeSettles(kind, result)
    /\ UNCHANGED otherVars
RefreshLocation == requestDeviceLocation /\ UNCHANGED otherVars
LocationFix ==
    /\ \E p \in DevicePoints : locationFix(p[1], p[2])
    /\ UNCHANGED <<aggVars, hazardVars, startEverSet, fixLog, clickTrail, markerLog>>
LocationError == locationError /\ UNCHANGED otherVars
SwitchMode ==
    /\ \E mode \in TravelModes : setTravelMode(mode)
    /\ UNCHANGED otherVars
RouteOptionClick ==
    /\ \E i \in 1..Len(routeChoices) : routeOptionClick(i)
    /\ UNCHANGED otherVars
PolylineClick ==
    /\ \E i \in 1..Len(routeChoices) : polylineClick(i)
    /\ UNCHANGED otherVars
BoundsChange ==
    /\ \E bounds \in Bounds : handleBoundsChange(bounds)
    /\ UNCHANGED otherVars
Route == ~routeDisabled /\ handleRoute /\ UNCHANGED otherVars
VariantSettles ==
    /\ \E i \in 1..3 : \E outcome \in RouteOutcomes(i) : variantSettles(i, outcome)
    /\ UNCHANGED otherVars
RouteMarkersSettle ==
    /\ \E fetch \in routeMarkerFetches, response \in MarkerResponses :
           routeMarkersSettle(fetch, response)
    /\ UNCHANGED otherVars
EffectMarkersSettle ==
    /\ \E response \in MarkerResponses : effectMarkersSettle(response)
    /\ UNCHANGED otherVars

Next ==
    \/ MapClick
    \/ EditStart
    \/ EditEnd
    \/ Clear
    \/ SwitchMode
    \/ RouteOptionClick
    \/ PolylineClick
    \/ BoundsChange
    \/ Route
    \/ VariantSettles
    \/ RouteMarkersSettle
    \/ EffectMarkersSettle

Spec == Init /\ [][Next]_vars


(***************************************************************************)
(* SpecGeo: place search and the device-location default, against routing. *)
(***************************************************************************)
\* the answers of the routing service in SpecGeo
GeoRouteOutcomes == {Ok(<<<<1, 11>>>>), NoRoute("M1")}

MapClickGeo ==
    /\ \E p \in DevicePoints : handleMapClick(p[1], p[2])
    /\ UNCHANGED otherVars

VariantSettlesGeo ==
    /\ \E i \in 1..3, outcome \in GeoRouteOutcomes : variantSettles(i, outcome)
    /\ UNCHANGED otherVars

NextGeo ==
    \/ MapClickGeo
    \/ Clear
    \/ TypePlace
    \/ PlaceSearch
    \/ GeocodeSettles
    \/ RefreshLocation
    \/ LocationFix
    \/ LocationError
    \/ Route
    \/ VariantSettlesGeo

SpecGeo == Init /\ [][NextGeo]_vars


(***************************************************************************)
(* SpecAgg: routing calls for fixed points and a fixed answer of the       *)
(* routing service to each variant (oracle), the variant requests settling *)
(* in every order.  results keeps what each completed call installed.      *)
(***************************************************************************)
InitAgg ==
    /\ \E mode \in TravelModes :
           /\ InitWith(Point(10, 10), Point(10, 95), mode)
           /\ oracle \in [1..Len(Variants(mode)) -> AggOutcomes]
    /\ results = [count |-> 0, seen |-> {}, first |-> <<>>, differed |-> FALSE]

RouteAgg ==
    /\ results.count < MaxRuns
    /\ ~routeDisabled
    /\ handleRoute
    /\ UNCHANGED otherVars

VariantSettlesAgg ==
    /\ \E i \in 1..Len(oracle) :
           /\ variantSettles(i, oracle[i])
           /\ results' =
                  IF routeCall' = nil
                  THEN LET arrival == Append(routeCall.arrival, i)
                       IN  [count |-> results.count + 1,
                            seen |-> results.seen
                                     \cup {[routeChoices |-> routeChoices',
                                            selectedRouteId |-> selectedRouteId',
                                            error |-> error']},
                            first |-> IF results.count = 0 THEN arrival
                                      ELSE results.first,
                            differed |-> results.differed
                                         \/ (results.count > 0
                                             /\ arrival # results.first)]
                  ELSE results
    /\ UNCHANGED <<oracle, hazardVars, deviceVars, clickTrail, markerLog>>

NextAgg ==
    \/ RouteAgg
    \/ VariantSettlesAgg

SpecAgg == InitAgg /\ [][NextAgg]_vars

(***************************************************************************)
(* Properties of the point handlers and of the route state (Spec, SpecGeo) *)
(***************************************************************************)
RouteStateCleared ==
    /\ routeChoices = <<>>
    /\ selectedRouteId = null
    /\ routeMarkers = EmptyMarkers

SyncPointHandlers ==
    {"handleMapClick", "updateStartFromInputs", "updateEndFromInputs", "handleClear"}

\* C1: in the state right after handleMapClick, updateStartFromInputs,
\* updateEndFromInputs or handleClear has set or changed start or end, routeChoices
\* is empty, selectedRouteId is null, routeMarkers is empty and error is null.
C1_PointChangeClearsRouteState ==
    lastPointStep.handler \in SyncPointHandlers
        => RouteStateCleared /\ error = null

\* a map click that found routes and their markers on display
C1_Witness ==
    /\ lastPointStep.handler = "handleMapClick"
    /\ lastPointStep.hadRoutes
    /\ lastPointStep.hadMarkers
    /\ end # nil

\* C2 (as the specification states it): in the state right after a geocode result
\* or the device-location default has assigned start or end, the route choices,
\* the selection and the markers are cleared.
C2_AsyncPointAssignmentClearsRouteState ==
    lastPointStep.handler \in {"applyGeocodeResult", "deviceDefault"}
        => RouteStateCleared

\* C3 (as the specification states it): a routing call whose start or end changed
\* while it was in flight installs nothing, so a non-empty routeChoices was always
\* computed from the current start and end.
C3_RouteChoicesFromCurrentPoints ==
    Len(routeChoices) > 0 => computedFrom = [start |-> start, end |-> end]

\* C4 (as the specification states it): a marker response whose captured bounds or
\* route choices are no longer the current ones leaves routeMarkers as it was.
C4_StaleMarkerResponseDiscarded ==
    [][/\ \A f \in routeMarkerFetches :
              (f \notin routeMarkerFetches'
               /\ (f.bounds # mapBounds \/ f.choices # routeChoices))
                  => routeMarkers' = routeMarkers
       /\ (effectFetch # nil /\ effectFetch' = nil /\ effectFetch.cancelled)
              => routeMarkers' = routeMarkers]_vars

ChoicesWithId(id) == {i \in 1..Len(routeChoices) : routeChoices[i].id = id}

\* C5: selectedRouteId is null or the id of a route choice of routeChoices, and no
\* two route choices share an id, so at most one route is active.
C5_SelectionReferencesCurrentChoice ==
    /\ selectedRouteId = null \/ ChoicesWithId(selectedRouteId) # {}
    /\ \A i \in 1..Len(routeChoices) :
           Cardinality(ChoicesWithId(routeChoices[i].id)) = 1

\* two routes on display, the user having selected the second
C5_Witness ==
    /\ Len(routeChoices) >= 2
    /\ selectedRouteId = routeChoices[2].id

(***************************************************************************)
(* Properties of the aggregation (SpecAgg): oracle[i] is the outcome of    *)
(* the request for Variants(travelMode)[i] in every call of the behaviour. *)
(***************************************************************************)
Completed == results.count > 0 /\ routeCall = nil

OkIndices == {i \in DOMAIN oracle : oracle[i].kind = "ok"}

KindAt(i) == Variants(travelMode)[i]

ChoicesWithKind(kind) ==
    {c \in 1..Len(routeChoices) : kind \in Range(routeChoices[c].kinds)}

\* C6: two routing calls with the same outcome per kind yield the same routeChoices
\* (same order, kinds, label and colour), the same selectedRouteId and the same
\* error, in whatever order their responses arrive.
C6_DeterministicUnderCompletionOrder == Cardinality(results.seen) <= 1

\* two completed calls whose responses arrived in different orders
C6_Witness ==
    /\ results.count >= 2
    /\ results.differed
    /\ Len(routeChoices) >= 2

\* C7: two ok outcomes are merged into one route choice when their coordinate
\* sequences are equal, and are two distinct route choices when the sequences
\* differ in an element or in length.
C7_MergedIffSameCoordinates ==
    Completed =>
        \A i, j \in OkIndices :
            i # j =>
                IF oracle[i].data = oracle[j].data
                THEN /\ ChoicesWithKind(KindAt(i)) = ChoicesWithKind(KindAt(j))
                     /\ Cardinality(ChoicesWithKind(KindAt(i))) = 1
                ELSE /\ ChoicesWithKind(KindAt(i)) \cap ChoicesWithKind(KindAt(j)) = {}
                     /\ Cardinality(ChoicesWithKind(KindAt(i))) = 1
                     /\ Cardinality(ChoicesWithKind(KindAt(j))) = 1

\* a walk call with two equal geometries and a third one that differs from them
C7_Witness ==
    /\ Completed
    /\ \E i, j, k \in OkIndices :
           /\ i # j
           /\ oracle[i].data = oracle[j].data
           /\ oracle[k].data # oracle[i].data
           /\ Len(oracle[k].data.coordinates) = Len(oracle[i].data.coordinates)

\* C8: after the aggregation every ok kind belongs to exactly one route choice, a
\* kind that was not ok belongs to none, and no two route choices have the same
\* coordinate sequence.
C8_KindsPartitionedCoordinatesUnique ==
    Completed =>
        /\ \A i \in DOMAIN oracle :
               Cardinality(ChoicesWithKind(KindAt(i)))
                   = IF i \in OkIndices THEN 1 ELSE 0
        /\ \A c \in 1..Len(routeChoices) :
               /\ Range(routeChoices[c].kinds) \subseteq Range(Variants(travelMode))
               /\ Len(routeChoices[c].kinds)
                      = Cardinality(Range(routeChoices[c].kinds))
        /\ \A c, d \in 1..Len(routeChoices) :
               routeChoices[c].result = routeChoices[d].result => c = d

\* two ok kinds sharing a geometry, one failed kind
C8_Witness ==
    /\ Completed
    /\ Len(routeChoices) = 1
    /\ Len(routeChoices[1].kinds) = 2
    /\ Len(oracle) = 3

NoRouteIndices == {i \in DOMAIN oracle : oracle[i].kind = "no_route"}

CanonicalIndex(kind) ==
    FindIndex({i \in 1..Len(KindOrder(travelMode)) : KindOrder(travelMode)[i] = kind})

\* the index of the outcome in S whose kind comes first in the canonical order
CanonicalFirst(S) ==
    CHOOSE i \in S :
        \A j \in S : CanonicalIndex(KindAt(i)) <= CanonicalIndex(KindAt(j))

C10_PartialSuccessSurfacesNoError ==
    (Completed /\ OkIndices # {}) =>
        /\ error = null
        /\ Len(routeChoices) > 0
        /\ \A c \in 1..Len(routeChoices) :
               \A kind \in Range(routeChoices[c].kinds) :
                   \E i \in OkIndices :
                       /\ KindAt(i) = kind
                       /\ routeChoices[c].result = oracle[i].data

\* one ok variant, one noRoute and one error
C10_Witness ==
    /\ Completed
    /\ Cardinality(OkIndices) = 1
    /\ NoRouteIndices # {}
    /\ \E i \in DOMAIN oracle : oracle[i].kind = "error"

\* C11: after a routing call with at least one ok outcome selectedRouteId is the
\* id of the route choice that contains the travel mode's preferred kind when
\* there is one, otherwise the id of the first route choice; it is never null.
C11_DefaultSelection ==
    (Completed /\ OkIndices # {}) =>
        /\ selectedRouteId # null
        /\ LET preferred == ChoicesWithKind(IF travelMode = "DRIVE" THEN "driveFast"
                                            ELSE "walkSafeAccessible")
           IN  IF preferred # {}
               THEN \E c \in preferred : selectedRouteId = routeChoices[c].id
               ELSE selectedRouteId = routeChoices[1].id

\* the preferred kind failed and two distinct routes are left
C11_Witness ==
    /\ Completed
    /\ Len(routeChoices) = 2
    /\ ChoicesWithKind("walkSafeAccessible") = {}
    /\ travelMode = "WALK"
    /\ selectedRouteId = "walkSafe"

(***************************************************************************)
(* SpecClick: the map's click handling.  Clicks at three distinct points,  *)
(* the hazard pick toggle, Clear, and routing with its marker requests, so *)
(* that clicks and toggles meet routes and markers on display.             *)
(***************************************************************************)
PickPoints == ClickPoints \cup {<<20, 20>>}

EmptyTrail == [tracked |-> TRUE, points |-> <<>>]

\* the click history after handleMapClick has taken the point p
TrailAfter(p) ==
    IF clickTrail.tracked /\ Len(clickTrail.points) < 3
    THEN [clickTrail EXCEPT !.points = Append(@, p)]
    ELSE [tracked |-> FALSE, points |-> <<>>]

MapClickPick ==
    /\ \E p \in PickPoints :
           /\ mapClick(p[1], p[2])
           /\ clickTrail' = IF hazardPickMode THEN clickTrail ELSE TrailAfter(p)
    /\ UNCHANGED <<aggVars, deviceVars, markerLog>>

ToggleHazardPick ==
    /\ ~hazardInputsDisabled
    /\ toggleHazardPick
    /\ UNCHANGED <<aggVars, deviceVars, clickTrail, markerLog>>

ClearPick ==
    /\ handleClear
    /\ clickTrail' = EmptyTrail
    /\ UNCHANGED <<aggVars, hazardVars, deviceVars, markerLog>>

\* the routing service finds the same route for every variant
VariantSettlesPick ==
    /\ \E i \in 1..3 : variantSettles(i, Ok(<<<<1, 11>>>>))
    /\ UNCHANGED otherVars

NextClick ==
    \/ MapClickPick
    \/ ToggleHazardPick
    \/ ClearPick
    \/ BoundsChange
    \/ Route
    \/ VariantSettlesPick
    \/ RouteMarkersSettle
    \/ EffectMarkersSettle

\* the state after the first location fix has assigned the default start and
\* Clear has been pressed: the hazard panel is enabled, start and end are unset
InitClick ==
    /\ InitState(nil, nil, "WALK", "ready", TRUE)
    /\ oracle = <<>>
    /\ results = [count |-> 0, seen |-> {}, first |-> <<>>, differed |-> FALSE]

SpecClick == InitClick /\ [][NextClick]_vars

\* C12: with hazard pick off, a map click with start and end unset sets start, a
\* click with only start set sets end and leaves start, and a click with both set
\* makes the clicked point the new start and unsets end; three clicks P1, P2, P3
\* from the empty state end with start = P3 and end unset.
C12_PointSelectionCycle ==
    clickTrail.tracked =>
        LET points == clickTrail.points
            At(k) == [lat |-> points[k][1], lon |-> points[k][2]]
        IN  /\ Len(points) = 0 => start = nil /\ end = nil
            /\ Len(points) = 1 => start = At(1) /\ end = nil
            /\ Len(points) = 2 => start = At(1) /\ end = At(2)
            /\ Len(points) = 3 => start = At(3) /\ end = nil

\* three clicks at three distinct points
C12_Witness ==
    /\ clickTrail.tracked
    /\ Len(clickTrail.points) = 3
    /\ Cardinality(Range(clickTrail.points)) = 3
    /\ ~hazardPickMode

\* C13: with hazardPickMode on, a map click sets the hazard location to the
\* clicked coordinate, turns hazardPickMode off and leaves start and end as they
\* are; a map click with hazardPickMode off, such as the next one, is handled as
\* a start/end click.
C13_HazardPickOneShot ==
    [][\A p \in PickPoints :
           mapClick(p[1], p[2]) =>
               IF hazardPickMode
               THEN /\ hazardLocation' = [lat |-> p[1], lon |-> p[2]]
                    /\ hazardPickMode' = FALSE
                    /\ start' = start
                    /\ end' = end
               ELSE /\ lastPointStep'.handler = "handleMapClick"
                    /\ start' # start \/ end' # end
                    /\ UNCHANGED <<hazardPickMode, hazardLocation>>]_vars

\* a hazard location was picked, and a later click was taken as a start/end click
C13_Witness ==
    /\ hazardLocation # nil
    /\ ~hazardPickMode
    /\ lastPointStep.handler = "handleMapClick"
    /\ start # nil
    /\ end # nil

\* C14: toggling hazardPickMode, and a map click consumed as a hazard pick, leave
\* routeChoices, selectedRouteId, routeMarkers, error, start and end unchanged.
C14_HazardPickKeepsRouteState ==
    [][(toggleHazardPick
        \/ (hazardPickMode /\ \E p \in PickPoints : mapClick(p[1], p[2])))
           => UNCHANGED <<routeChoices, selectedRouteId, routeMarkers, error,
                          start, end>>]_vars

\* routes and their markers on display, a hazard location picked and the pick
\* mode switched on again
C14_Witness ==
    /\ hazardLocation # nil
    /\ lastPointStep.handler = "none"
    /\ Len(routeChoices) > 0
    /\ routeMarkers # EmptyMarkers
    /\ hazardPickMode

(***************************************************************************)
(* SpecCall: handleRoute called on every combination of an unset, a valid  *)
(* and an out-of-range start and end.                                      *)
(***************************************************************************)
CallPoints == {nil, Point(10, 10), Point(95, 10), Point(10, 190)}

InitCall ==
    /\ \E s \in CallPoints, e \in CallPoints, mode \in TravelModes :
           InitWith(s, e, mode)
    /\ oracle = <<>>
    /\ results = [count |-> 0, seen |-> {}, first |-> <<>>, differed |-> FALSE]

CallHandleRoute == ~loading /\ handleRoute /\ UNCHANGED otherVars

NextCall ==
    \/ CallHandleRoute
    \/ BoundsChange
    \/ VariantSettles
    \/ RouteMarkersSettle
    \/ EffectMarkersSettle

SpecCall == InitCall /\ [][NextCall]_vars

OutOfRange(p) ==
    /\ p # nil
    /\ p.lat < -90 \/ p.lat > 90 \/ p.lon < -180 \/ p.lon > 180

\* C15: a routing call with start or end unset, or with a latitude outside
\* [-90, 90] or a longitude outside [-180, 180], sets a validation error,
\* dispatches no variant request and no marker request, and leaves routeChoices
\* empty and loading false.
C15_ValidationPrecedesNetwork ==
    [][(handleRoute
        /\ (start = nil \/ end = nil \/ OutOfRange(start) \/ OutOfRange(end)))
           => /\ error' = IF start = nil \/ end = nil
                          THEN "Please set both a start and end location."
                          ELSE "Coordinates are out of range."
              /\ routeCall' = nil
              /\ routeMarkerFetches' = routeMarkerFetches
              /\ effectFetch' = nil \/ effectFetch' = CancelledFetch
              /\ routeChoices' = <<>>
              /\ loading' = FALSE]_vars

\* a call with an out-of-range longitude, made with the map's bounds known
C15_Witness ==
    /\ error = "Coordinates are out of range."
    /\ start = Point(10, 190)
    /\ mapBounds # nil
    /\ routeCall = nil

PendingIn(call) == {i \in 1..Len(call.settled) : call.settled[i].kind = "pending"}

\* C16: a routing call dispatches one request per variant kind of the travel mode
\* (3 for WALK, 2 for DRIVE) before any of its responses is processed, and sets
\* routeChoices, the selection or the error only when the last of them settles.
C16_FanOutThenJoin ==
    [][/\ (routeCall = nil /\ routeCall' # nil)
              => /\ Len(routeCall'.settled) = IF travelMode = "WALK" THEN 3 ELSE 2
                 /\ PendingIn(routeCall') = 1..Len(routeCall'.settled)
       /\ (routeCall # nil /\ routeCall' # nil /\ routeCall' # routeCall)
              => /\ PendingIn(routeCall') \subseteq PendingIn(routeCall)
                 /\ Cardinality(PendingIn(routeCall'))
                        = Cardinality(PendingIn(routeCall)) - 1
                 /\ UNCHANGED <<routeChoices, selectedRouteId, error, loading>>
       /\ (routeCall # nil /\ routeCall' = nil)
              => Cardinality(PendingIn(routeCall)) = 1]_vars

\* two of three walk requests have settled, one of them ok, and nothing is shown
C16_Witness ==
    /\ routeCall # nil
    /\ Cardinality(PendingIn(routeCall)) = 1
    /\ Len(routeCall.settled) = 3
    /\ \E i \in 1..3 : routeCall.settled[i].kind = "ok"
    /\ routeChoices = <<>>
    /\ loading

(***************************************************************************)
(* fetchRouteVariant (api/client.ts) as a function of what the network     *)
(* gave: a transport failure (fetch rejects with an Error whose message is *)
(* failure), or a response with its status, status text, content type and  *)
(* body.  Of the body: its text; whether it is JSON (response.json()       *)
(* resolves); whether the JSON value is truthy (object); whether it has a  *)
(* message field that is a string, and that string; JSON.stringify of the  *)
(* value (canonical); and the route result it holds (data).                *)
(***************************************************************************)
NoData == [coordinates |-> <<>>]

Body(text, parses, object, hasMessage, message, canonical, data) ==
    [text |-> text, parses |-> parses, object |-> object,
     hasMessage |-> hasMessage, message |-> message, canonical |-> canonical,
     data |-> data]

Reply(transport, failure, status, statusText, json, body) ==
    [transport |-> transport, failure |-> failure, status |-> status,
     statusText |-> statusText, json |-> json, body |-> body]

\* { kind: 'error', message, status: response.status }
FailedWith(message, status) ==
    [kind |-> "error", message |-> message, status |-> status]

\* response.text().catch(() => ''): a body can be read once, so text() rejects
\* when response.json() has read it
responseText(reply, bodyUsed) == IF bodyUsed THEN "" ELSE reply.body.text

\* readErrorMessage
readErrorMessage(reply) ==
    LET hasBody == reply.json /\ reply.body.parses /\ reply.body.object
    IN  IF hasBody /\ reply.body.hasMessage THEN reply.body.message
        ELSE IF hasBody THEN reply.body.canonical
        ELSE LET text == responseText(reply, reply.json)
             IN  IF text # "" THEN text
                 ELSE IF reply.statusText # "" THEN reply.statusText
                 ELSE "Request failed."

fetchRouteVariantNo422(reply) ==
    IF reply.transport = "failed" THEN Failed(reply.failure)
    ELSE IF reply.status \in 200..299
    THEN IF reply.body.parses THEN Ok(reply.body.data.coordinates)
         ELSE Failed("Unexpected end of JSON input")
    ELSE LET message == readErrorMessage(reply)
         IN  FailedWith(IF message # "" THEN message
                        ELSE "Routing failed. Please try again.", reply.status)

fetchRouteVariantNoStatus(reply) ==
    IF reply.transport = "failed" THEN Failed(reply.failure)
    ELSE IF reply.status \in 200..299
    THEN IF reply.body.parses THEN Ok(reply.body.data.coordinates)
         ELSE Failed("Unexpected end of JSON input")
    ELSE LET message == readErrorMessage(reply)
         IN  IF reply.status = 422
             THEN NoRoute(IF message # "" THEN message ELSE "No route found.")
             ELSE Failed(IF message # "" THEN message
                         ELSE "Routing failed. Please try again.")

fetchRouteVariant(reply) ==
    IF reply.transport = "failed" THEN Failed(reply.failure)
    ELSE IF reply.status \in 200..299
    THEN IF reply.body.parses THEN Ok(reply.body.data.coordinates)
         ELSE Failed("Unexpected end of JSON input")
    ELSE LET message == readErrorMessage(reply)
         IN  IF reply.status = 422
             THEN NoRoute(IF message # "" THEN message ELSE "No route found.")
             ELSE FailedWith(IF message # "" THEN message
                             ELSE "Routing failed. Please try again.",
                             reply.status)

\* what the network can give
NoBody == Body("", FALSE, FALSE, FALSE, "", "", NoData)
TextBody == Body("Bad Gateway", FALSE, FALSE, FALSE, "", "", NoData)
RouteBody(coords) ==
    Body("{\"routeGeojson\":{}}", TRUE, TRUE, FALSE, "", "{\"routeGeojson\":{}}",
         [coordinates |-> coords])
MessageBody(message) ==
    Body("{\"message\":\"" \o message \o "\"}", TRUE, TRUE, TRUE, message,
         "{\"message\":\"" \o message \o "\"}", NoData)
CodeBody == Body("{ \"code\": 7 }", TRUE, TRUE, FALSE, "", "{\"code\":7}", NoData)
NullBody == Body("null", TRUE, FALSE, FALSE, "", "null", NoData)

TransportFailure == Reply("failed", "Failed to fetch", 0, "", FALSE, NoBody)

Replies ==
    {TransportFailure}
    \cup {Reply("ok", "", 200, "", TRUE, RouteBody(c)) :
              c \in {<<<<1, 11>>>>, <<<<11, 1>>>>}}
    \cup {Reply("ok", "", 200, "", TRUE, NoBody)}
    \cup {Reply("ok", "", status, "", TRUE, MessageBody(message)) :
              status \in {422, 500}, message \in {"", "M1"}}
    \cup {Reply("ok", "", status, "", FALSE, body) :
              status \in {422, 500}, body \in {NoBody, TextBody}}

(***************************************************************************)
(* SpecFetch: one routing call, oracle[i] being what the network gives the *)
(* request of variant i; results keeps the array the join handed over.     *)
(***************************************************************************)
InitFetch ==
    /\ \E mode \in TravelModes :
           /\ InitWith(Point(10, 10), Point(10, 95), mode)
           /\ oracle \in [1..Len(Variants(mode)) -> Replies]
    /\ results = [count |-> 0, responses |-> <<>>]

RouteFetch ==
    /\ results.count = 0
    /\ ~routeDisabled
    /\ handleRoute
    /\ UNCHANGED otherVars

VariantSettlesFetch ==
    /\ \E i \in 1..Len(oracle) :
           LET outcome == fetchRouteVariant(oracle[i])
           IN  /\ variantSettles(i, outcome)
               /\ results' =
                      IF routeCall' = nil
                      THEN [count |-> results.count + 1,
                            responses |->
                                PromiseAll([routeCall.settled EXCEPT ![i] = outcome],
                                           Append(routeCall.arrival, i))]
                      ELSE results
    /\ UNCHANGED <<oracle, hazardVars, deviceVars, clickTrail, markerLog>>

NextFetch ==
    \/ RouteFetch
    \/ VariantSettlesFetch

SpecFetch == InitFetch /\ [][NextFetch]_vars

\* what the specification expects of a reply: ok, no_route or error
ExpectedKind(reply) ==
    IF reply.transport = "failed" THEN "error"
    ELSE IF reply.status \in 200..299 /\ reply.body.parses THEN "ok"
    ELSE IF reply.status = 422 THEN "no_route"
    ELSE "error"

\* C17: fetchRouteVariant resolves to an outcome (ok, no_route or error) for every
\* HTTP status and for a transport failure, so the join yields exactly one outcome
\* per variant at that variant's request index, and the ok outcome of a variant
\* is never lost because another variant failed.
C17_FailuresCollectedAsValues ==
    Completed =>
        /\ Len(results.responses) = Len(Variants(travelMode))
        /\ \A i \in DOMAIN oracle :
               /\ results.responses[i].kind = ExpectedKind(oracle[i])
               /\ results.responses[i].kind = "ok"
                      => /\ results.responses[i].data = oracle[i].body.data
                         /\ \E c \in ChoicesWithKind(KindAt(i)) :
                                routeChoices[c].result = oracle[i].body.data
               /\ results.responses[i].kind # "ok"
                      => /\ results.responses[i].message # ""
                         /\ ChoicesWithKind(KindAt(i)) = {}

\* a transport failure, a 500 and a 200: the route of the third is on display
C17_Witness ==
    /\ Completed
    /\ Len(oracle) = 3
    /\ oracle[1].transport = "failed"
    /\ oracle[2].status = 500
    /\ oracle[3].status = 200 /\ oracle[3].body.parses
    /\ Len(routeChoices) = 1
    /\ error = null

(***************************************************************************)
(* SpecLoc: the device location.  Location requests and fixes at two       *)
(* places, the reverse geocode of the default start, and the other ways of *)
(* assigning start: map clicks, edits of the start fields, Clear and place *)
(* searches.                                                               *)
(***************************************************************************)
LocPoints == {<<10, 10>>, <<10, 95>>}

ReverseGeocodeResults ==
    {[kind |-> "ok", label |-> "1 Main St"], [kind |-> "error", label |-> ""]}

LocationFixLoc ==
    /\ fixLog.fixes < MaxFixes
    /\ \E p \in LocPoints : locationFix(p[1], p[2])
    /\ fixLog' = [fixes |-> fixLog.fixes + 1,
                  defaults |-> IF lastPointStep'.handler = "deviceDefault"
                               THEN fixLog.defaults + 1 ELSE fixLog.defaults]
    /\ UNCHANGED <<aggVars, hazardVars, startEverSet, clickTrail, markerLog>>

ReverseGeocodeSettles ==
    /\ \E result \in ReverseGeocodeResults : reverseGeocodeSettles(result)
    /\ UNCHANGED <<aggVars, hazardVars, startEverSet, fixLog, clickTrail, markerLog>>

MapClickLoc ==
    /\ \E p \in LocPoints : mapClick(p[1], p[2])
    /\ startEverSet' = (startEverSet \/ start = nil \/ end # nil)
    /\ UNCHANGED <<aggVars, reverseRequest, fixLog, clickTrail, markerLog>>

EditStartLoc ==
    /\ \E lat \in EditTexts, lon \in EditTexts : updateStartFromInputs(lat, lon)
    /\ startEverSet' = (startEverSet \/ start' # nil)
    /\ UNCHANGED <<aggVars, hazardVars, reverseRequest, fixLog, clickTrail, markerLog>>

GeocodeSettlesLoc ==
    /\ \E kind \in {"start", "end"}, result \in GeocodeResults :
           /\ geocodeSettles(kind, result)
           /\ startEverSet' =
                  (startEverSet
                   \/ (kind = "start"
                       /\ lastPointStep'.handler = "applyGeocodeResult"))
    /\ UNCHANGED <<aggVars, hazardVars, reverseRequest, fixLog, clickTrail, markerLog>>

NextLoc ==
    \/ RefreshLocation
    \/ LocationFixLoc
    \/ LocationError
    \/ ReverseGeocodeSettles
    \/ MapClickLoc
    \/ EditStartLoc
    \/ Clear
    \/ TypePlace
    \/ PlaceSearch
    \/ GeocodeSettlesLoc

SpecLoc == Init /\ [][NextLoc]_vars

FixStep == geoStatus = "locating" /\ geoStatus' = "ready"

\* C18: over any sequence of location fixes, Clear actions, map clicks and manual
\* edits the default start is assigned by a location fix at most once, and once
\* hasDefaultedStart is set no later fix changes start.
C18_DefaultStartLatch ==
    [][/\ fixLog'.defaults <= 1
       /\ (FixStep /\ hasDefaultedStart)
              => UNCHANGED <<start, startPlace, hasDefaultedStart>>]_vars

\* the default was assigned, start was cleared, and a second fix left it unset
C18_Witness ==
    /\ fixLog = [fixes |-> 2, defaults |-> 1]
    /\ hasDefaultedStart
    /\ start = nil
    /\ geoStatus = "ready"

\* C19 (as the specification states it): a successful location fix assigns the
\* default start if and only if start has never been set by a map click, a manual
\* edit or a geocode, also when start was set and unset again before the fix
\* (stated for the fixes that find the latch unconsumed).
C19_DefaultOnlyIfStartNeverSet ==
    [][(FixStep /\ ~hasDefaultedStart)
           => (lastPointStep'.handler = "deviceDefault" <=> ~startEverSet)]_vars

\* C19 (amended): a successful location fix assigns the default start if and only
\* if the latch is unconsumed and start is unset when the fix arrives, whether or
\* not start was set and unset before; otherwise it leaves start as it is.
C19_DefaultIffLatchFreeAndStartUnset ==
    [][\A p \in LocPoints :
           locationFix(p[1], p[2]) =>
               IF ~hasDefaultedStart /\ start = nil
               THEN /\ start' = [lat |-> p[1], lon |-> p[2]]
                    /\ startPlace' = "Current location"
                    /\ hasDefaultedStart'
               ELSE UNCHANGED <<start, startPlace, hasDefaultedStart>>]_vars

\* start was set by the user and unset again, then the fix assigned the default
C19_Witness ==
    /\ startEverSet
    /\ lastPointStep.handler = "deviceDefault"
    /\ fixLog.defaults = 1

\* C20: the reverse-geocode result requested after the device default replaces
\* the start place label only if, at completion, start is set and within 1e-6
\* degrees in latitude and longitude of the coordinate captured at fix time; if
\* start was moved or unset, or the reverse geocode failed, nothing changes.
C20_LabelBackfillChecksStaleness ==
    [][\A result \in ReverseGeocodeResults :
           reverseGeocodeSettles(result) =>
               /\ IF /\ result.kind = "ok"
                     /\ start # nil
                     /\ (start.lat - reverseRequest.defaultLocation.lat) * 1000000 < 1
                     /\ (reverseRequest.defaultLocation.lat - start.lat) * 1000000 < 1
                     /\ (start.lon - reverseRequest.defaultLocation.lon) * 1000000 < 1
                     /\ (reverseRequest.defaultLocation.lon - start.lon) * 1000000 < 1
                  THEN startPlace' = result.label
                  ELSE startPlace' = startPlace
               /\ UNCHANGED <<start, end, endPlace, routeChoices, selectedRouteId,
                              routeMarkers, error, hasDefaultedStart, geoStatus,
                              travelMode, loading, geocoding>>]_vars

\* the label was backfilled while start was still the device location
C20_Witness ==
    /\ startPlace = "1 Main St"
    /\ start # nil
    /\ reverseRequest = nil
    /\ hasDefaultedStart

(***************************************************************************)
(* SpecMark: the marker requests.  The points are set; the viewport moves  *)
(* between two bounds, routing calls are made and answered, the marker     *)
(* requests are answered with one of two marker lists or fail, and a map   *)
(* click changes the points.  markerLog holds the marker requests the last *)
(* step sent: the one of the effect (its run() calls fetchRouteMarkers     *)
(* when a render has assigned mapBounds or routeChoices and the guard      *)
(* passes) and the one of handleRoute.                                     *)
(***************************************************************************)
MarkBounds ==
    {[minLat |-> 0, maxLat |-> 50, minLon |-> 0, maxLon |-> 50],
     [minLat |-> 0, maxLat |-> 90, minLon |-> 0, maxLon |-> 90]}

MarkResponses ==
    {[kind |-> "ok", data |-> [hazardMarkers |-> <<"h1">>, riskMarkers |-> <<>>]],
     [kind |-> "ok", data |-> [hazardMarkers |-> <<"h1", "h2">>, riskMarkers |-> <<>>]],
     [kind |-> "error", message |-> "Failed to fetch markers."]}

\* run() of the effect, line 555: effectRan says that the step assigned one
\* of the effect's dependencies
EffectRequests(effectRan) ==
    IF effectRan /\ effectFetch' # nil /\ ~effectFetch'.cancelled
    THEN <<[by |-> "effect", bounds |-> effectFetch'.bounds]>>
    ELSE <<>>

\* handleRoute, line 380
RouteRequests ==
    IF routeMarkerFetches' \subseteq routeMarkerFetches
    THEN <<>>
    ELSE LET fetch == CHOOSE f \in routeMarkerFetches' \ routeMarkerFetches : TRUE
         IN  <<[by |-> "handleRoute", bounds |-> fetch.bounds]>>

InitMark ==
    /\ \E mode \in TravelModes : InitWith(Point(10, 10), Point(10, 95), mode)
    /\ oracle = <<>>
    /\ results = [count |-> 0, seen |-> {}, first |-> <<>>, differed |-> FALSE]

MapClickMark ==
    /\ \E p \in DevicePoints : handleMapClick(p[1], p[2])
    /\ markerLog' = EffectRequests(TRUE) \o RouteRequests
    /\ UNCHANGED <<aggVars, hazardVars, deviceVars, clickTrail>>

BoundsChangeMark ==
    /\ \E bounds \in MarkBounds : handleBoundsChange(bounds)
    /\ markerLog' = EffectRequests(TRUE) \o RouteRequests
    /\ UNCHANGED <<aggVars, hazardVars, deviceVars, clickTrail>>

RouteMark ==
    /\ ~routeDisabled
    /\ handleRoute
    /\ markerLog' = EffectRequests(TRUE) \o RouteRequests
    /\ UNCHANGED <<aggVars, hazardVars, deviceVars, clickTrail>>

\* setRouteChoices(choices) is reached when the join found an ok route
VariantSettlesMark ==
    /\ \E i \in 1..3 : \E outcome \in RouteOutcomes(i) : variantSettles(i, outcome)
    /\ markerLog' = EffectRequests(routeChoices' # routeChoices) \o RouteRequests
    /\ UNCHANGED <<aggVars, hazardVars, deviceVars, clickTrail>>

RouteMarkersSettleMark ==
    /\ \E fetch \in routeMarkerFetches, response \in MarkResponses :
           routeMarkersSettle(fetch, response)
    /\ markerLog' = EffectRequests(FALSE) \o RouteRequests
    /\ UNCHANGED <<aggVars, hazardVars, deviceVars, clickTrail>>

EffectMarkersSettleMark ==
    /\ \E response \in MarkResponses : effectMarkersSettle(response)
    /\ markerLog' = EffectRequests(FALSE) \o RouteRequests
    /\ UNCHANGED <<aggVars, hazardVars, deviceVars, clickTrail>>

NextMark ==
    \/ MapClickMark
    \/ BoundsChangeMark
    \/ RouteMark
    \/ VariantSettlesMark
    \/ RouteMarkersSettleMark
    \/ EffectMarkersSettleMark

SpecMark == InitMark /\ [][NextMark]_vars

\* C21: no marker request is sent in a state where mapBounds is null or
\* routeChoices is empty, whether the effect sent it (after a bounds change or
\* a new route list) or handleRoute did.
C21_NoMarkerRequestWithoutBoundsOrChoices ==
    \A i \in 1..Len(markerLog) :
        /\ markerLog[i].bounds # nil
        /\ mapBounds # nil
        /\ Len(routeChoices) > 0

\* a routing call has just sent its marker request
C21_Witness ==
    /\ \E i \in 1..Len(markerLog) : markerLog[i].by = "handleRoute"
    /\ \E i \in 1..Len(markerLog) : markerLog[i].by = "effect"

\* C22: when a marker request that is not stale (the effect's request not
\* cancelled; handleRoute's request made for the current bounds and the current
\* choices) is answered ok, routeMarkers has exactly the ids of the current
\* routeChoices as keys and maps every one of them to the marker list of that
\* answer.
C22_MarkerBroadcast ==
    [][\A response \in MarkResponses :
           response.kind = "ok" =>
               /\ (effectMarkersSettle(response) /\ ~effectFetch.cancelled)
                      => /\ DOMAIN routeMarkers'
                              = {routeChoices'[i].id : i \in 1..Len(routeChoices')}
                         /\ \A id \in DOMAIN routeMarkers' :
                                routeMarkers'[id] = response.data
               /\ \A fetch \in routeMarkerFetches :
                      (/\ routeMarkersSettle(fetch, response)
                       /\ fetch.choices = routeChoices
                       /\ fetch.bounds = mapBounds)
                      => /\ DOMAIN routeMarkers'
                              = {routeChoices'[i].id : i \in 1..Len(routeChoices')}
                         /\ \A id \in DOMAIN routeMarkers' :
                                routeMarkers'[id] = response.data]_vars

\* two route choices share the second marker list, answered to the effect
C22_Witness ==
    /\ Len(routeChoices) = 2
    /\ DOMAIN routeMarkers = {routeChoices[i].id : i \in 1..Len(routeChoices)}
    /\ Cardinality(DOMAIN routeMarkers) = 2
    /\ \A id \in DOMAIN routeMarkers : routeMarkers[id].hazardMarkers = <<"h1", "h2">>
    /\ markerLog = <<>>
    /\ effectFetch = nil
    /\ routeMarkerFetches # {}

(***************************************************************************)
(* Properties of the route choices a call installs (SpecAgg).              *)
(***************************************************************************)
\* the kinds whose ok outcome has the geometry of route choice c, in canonical
\* rank order
ContributingKinds(c) ==
    LET Contributes(kind) ==
            \E i \in OkIndices :
                KindAt(i) = kind /\ oracle[i].data = routeChoices[c].result
    IN  SelectSeq(KindOrder(travelMode), Contributes)

\* C23: the id of a route choice is its contributing kinds joined with "-" in
\* canonical rank order, so calls with the same grouping of kinds install the
\* same ids; the ids of one routeChoices list are pairwise distinct.
C23_RouteIdsContentDerivedUnique ==
    Completed =>
        /\ \A c \in 1..Len(routeChoices) :
               routeChoices[c].id = Join(ContributingKinds(c), "-")
        /\ \A c, d \in 1..Len(routeChoices) :
               routeChoices[c].id = routeChoices[d].id => c = d
        /\ \A seen \in results.seen :
               [c \in 1..Len(seen.routeChoices) |-> seen.routeChoices[c].id]
                   = [c \in 1..Len(routeChoices) |-> routeChoices[c].id]

\* two walk calls: the first and third request share a geometry, the second
\* has its own
C23_Witness ==
    /\ Completed
    /\ results.count = 2
    /\ Len(routeChoices) = 2
    /\ routeChoices[1].id = "walkSafeAccessible-walkSafe"
    /\ routeChoices[2].id = "walkAccessible"

\* the canonical rank of the best kind of route choice c
BestRank(c) ==
    CHOOSE r \in {CanonicalIndex(kind) : kind \in Range(routeChoices[c].kinds)} :
        \A kind \in Range(routeChoices[c].kinds) : r <= CanonicalIndex(kind)

\* C24: the kinds of a route choice are its contributing kinds sorted by
\* canonical rank, its label is their display labels joined in that order with
\* " · ", and its colour is the colour of its best-ranked kind; the walk kinds
\* safe and accessible merged are labelled "Safe · Accessible".
C24_KindsLabelColor ==
    Completed =>
        \A c \in 1..Len(routeChoices) :
            LET kinds == routeChoices[c].kinds
            IN  /\ kinds = ContributingKinds(c)
                /\ \A i, j \in 1..Len(kinds) :
                       i < j => CanonicalIndex(kinds[i]) < CanonicalIndex(kinds[j])
                /\ routeChoices[c].label
                       = Join([i \in 1..Len(kinds) |-> routeKindLabels[kinds[i]]],
                              " · ")
                /\ \E kind \in Range(kinds) :
                       /\ CanonicalIndex(kind) = BestRank(c)
                       /\ routeChoices[c].color = routeColors[kind]
                /\ Range(kinds) = {"walkSafe", "walkAccessible"}
                       => routeChoices[c].label = "Safe · Accessible"

\* safe and accessible share a geometry, safe + accessible found no route
C24_Witness ==
    /\ Completed
    /\ travelMode = "WALK"
    /\ oracle[3].kind = "no_route"
    /\ Len(routeChoices) = 1
    /\ routeChoices[1].kinds = <<"walkSafe", "walkAccessible">>
    /\ routeChoices[1].label = "Safe · Accessible"
    /\ routeChoices[1].color = "#16a34a"
    /\ selectedRouteId = "walkSafe-walkAccessible"
    /\ error = null

\* C25: routeChoices is sorted strictly ascending by the canonical rank of each
\* route choice's best kind.
C25_ChoicesSortedByBestRank ==
    Completed =>
        \A c, d \in 1..Len(routeChoices) : c < d => BestRank(c) < BestRank(d)

\* three walk routes: requested as safe, accessible, safe + accessible and
\* listed as safe + accessible, safe, accessible
C25_Witness ==
    /\ Completed
    /\ Len(routeChoices) = 3
    /\ routeChoices[1].kinds = <<"walkSafeAccessible">>
    /\ routeChoices[2].kinds = <<"walkSafe">>
    /\ routeChoices[3].kinds = <<"walkAccessible">>

(***************************************************************************)
(* SpecRetry: the three kinds of request and their failures.  Routing      *)
(* calls whose variants are answered ok or no_route, marker requests and   *)
(* place searches of the start field that are answered or fail.            *)
(***************************************************************************)
TypePlaceRetry ==
    /\ \E text \in PlaceTexts : setPlace("start", text)
    /\ markerLog' = EffectRequests(routeChoices' # routeChoices) \o RouteRequests
    /\ UNCHANGED <<aggVars, hazardVars, deviceVars, clickTrail>>

PlaceSearchRetry ==
    /\ handlePlaceSearch("start")
    /\ markerLog' = EffectRequests(routeChoices' # routeChoices) \o RouteRequests
    /\ UNCHANGED <<aggVars, hazardVars, deviceVars, clickTrail>>

GeocodeSettlesRetry ==
    /\ \E result \in GeocodeResults : geocodeSettles("start", result)
    /\ markerLog' = EffectRequests(routeChoices' # routeChoices) \o RouteRequests
    /\ UNCHANGED <<aggVars, hazardVars, deviceVars, clickTrail>>

NextRetry ==
    \/ TypePlaceRetry
    \/ PlaceSearchRetry
    \/ GeocodeSettlesRetry
    \/ BoundsChangeMark
    \/ RouteMark
    \/ VariantSettlesMark
    \/ RouteMarkersSettleMark
    \/ EffectMarkersSettleMark

SpecRetry == InitMark /\ [][NextRetry]_vars

\* C26: a routing call requests each variant kind of its travel mode once; a
\* variant that has settled, whatever its outcome, is not requested again by
\* the call, and variant requests come into being only by handleRoute.  A
\* marker request or a geocode request that fails is removed from the requests
\* in flight and no request is sent in its place.
C26_NoAutomaticRetry ==
    [][/\ routeCall' # nil
              => /\ Len(routeCall'.requests) = Len(Variants(routeCall'.mode))
                 /\ \A i \in 1..Len(routeCall'.requests) : routeCall'.requests[i] = 1
       /\ (routeCall # nil /\ routeCall' # nil)
              => \A i \in 1..Len(routeCall.settled) :
                     routeCall.settled[i] # Pending
                         => routeCall'.settled[i] = routeCall.settled[i]
       /\ (routeCall = nil /\ routeCall' # nil) => handleRoute
       /\ \A response \in MarkResponses :
              response.kind # "ok" =>
                  /\ effectMarkersSettle(response)
                         => /\ effectFetch' = nil
                            /\ routeMarkerFetches' = routeMarkerFetches
                            /\ markerLog' = <<>>
                  /\ \A fetch \in routeMarkerFetches :
                         routeMarkersSettle(fetch, response)
                             => /\ routeMarkerFetches' = routeMarkerFetches \ {fetch}
                                /\ effectFetch' = effectFetch
                                /\ markerLog' = <<>>
       /\ \A result \in GeocodeResults :
              (result.kind # "ok" /\ geocodeSettles("start", result))
                  => /\ geoRequests'.start = geoRequests.start - 1
                     /\ geoRequests'.end = geoRequests.end
                     /\ routeCall' = routeCall
                     /\ markerLog' = <<>>]_vars

\* a walk call whose second variant found no route and whose third is still
\* awaited, and a place search that failed
C26_Witness ==
    /\ routeCall # nil
    /\ Len(routeCall.settled) = 3
    /\ routeCall.settled[2].kind = "no_route"
    /\ routeCall.settled[3] = Pending
    /\ routeCall.requests[2] = 1
    /\ error = "Place not found."
    /\ geoRequests.start = 0

(***************************************************************************)
(* SpecReply: one routing call in which one variant is given any reply of  *)
(* AllReplies and the others a route.  A success response holds a route    *)
(* result or a body that is not JSON.                                      *)
(***************************************************************************)
ReplyStatuses == {200, 404, 422, 500}
ReplyStatusTexts == {"", "Service Unavailable"}
ReplyBodies ==
    {NoBody, TextBody, MessageBody("M1"), MessageBody(""), CodeBody, NullBody,
     RouteBody(<<<<11, 1>>>>)}

AllReplies ==
    {TransportFailure}
    \cup {Reply("ok", "", status, statusText, json, body) :
              status \in ReplyStatuses \ {200}, statusText \in ReplyStatusTexts,
              json \in BOOLEAN, body \in ReplyBodies}
    \cup {Reply("ok", "", 200, statusText, json, body) :
              statusText \in ReplyStatusTexts, json \in BOOLEAN,
              body \in {NoBody, TextBody, RouteBody(<<<<11, 1>>>>)}}

InitReply ==
    /\ \E mode \in TravelModes :
           /\ InitWith(Point(10, 10), Point(10, 95), mode)
           /\ \E k \in 1..Len(Variants(mode)), reply \in AllReplies :
                  oracle = [i \in 1..Len(Variants(mode)) |->
                               IF i = k THEN reply
                               ELSE Reply("ok", "", 200, "", TRUE,
                                          RouteBody(<<<<1, 11>>>>))]
    /\ results = [count |-> 0, responses |-> <<>>]

SpecReply == InitReply /\ [][NextFetch]_vars

\* C27 as stated: the outcome of a variant request is ok with the route result
\* for a success status, no_route with a non-empty message for 422, error with
\* the status for any other status, error without status for a transport
\* failure.
C27_ClassifiedByStatus ==
    Completed =>
        \A i \in DOMAIN oracle :
            LET reply == oracle[i]
                outcome == results.responses[i]
            IN  IF reply.transport = "failed"
                THEN outcome.kind = "error" /\ "status" \notin DOMAIN outcome
                ELSE IF reply.status \in 200..299
                THEN outcome.kind = "ok" /\ outcome.data = reply.body.data
                ELSE IF reply.status = 422
                THEN outcome.kind = "no_route" /\ outcome.message # ""
                ELSE /\ outcome.kind = "error"
                     /\ "status" \in DOMAIN outcome
                     /\ outcome.status = reply.status

\* C27 amended: as C27_ClassifiedByStatus, except that a success status yields
\* ok with the route result only when the body is read as JSON, and error
\* without status when it is not.
C27_ClassifiedByStatusAndBody ==
    Completed =>
        \A i \in DOMAIN oracle :
            LET reply == oracle[i]
                outcome == results.responses[i]
            IN  IF reply.transport = "failed"
                THEN outcome.kind = "error" /\ "status" \notin DOMAIN outcome
                ELSE IF reply.status \in 200..299 /\ reply.body.parses
                THEN outcome.kind = "ok" /\ outcome.data = reply.body.data
                ELSE IF reply.status \in 200..299
                THEN /\ outcome.kind = "error"
                     /\ "status" \notin DOMAIN outcome
                     /\ outcome.message # ""
                ELSE IF reply.status = 422
                THEN outcome.kind = "no_route" /\ outcome.message # ""
                ELSE /\ outcome.kind = "error"
                     /\ "status" \in DOMAIN outcome
                     /\ outcome.status = reply.status

\* a walk call whose second variant got a 200 with a body that is not JSON
C27_Witness ==
    /\ Completed
    /\ Len(oracle) = 3
    /\ oracle[2].status = 200
    /\ ~oracle[2].body.parses
    /\ results.responses[2].kind = "error"
    /\ results.responses[1].kind = "ok"
    /\ Len(routeChoices) = 1

\* C28: the message of the outcome of a non-success response is never empty and
\* is the message field of the JSON body when that is a string, else the body
\* of the response, else the status text.  (Left open: a message field that is
\* the empty string, JSON sent without the JSON content type, and whether the
\* body is its text or the text JSON.stringify gives for it.)
C28_MessagePriority ==
    Completed =>
        \A i \in DOMAIN oracle :
            LET reply == oracle[i]
                outcome == results.responses[i]
                hasMessage == /\ reply.body.parses
                              /\ reply.body.object
                              /\ reply.body.hasMessage
            IN  (reply.transport = "ok" /\ reply.status \notin 200..299)
                    => /\ outcome.message # ""
                       /\ IF hasMessage
                          THEN (reply.json /\ reply.body.message # "")
                                   => outcome.message = reply.body.message
                          ELSE IF reply.body.text # ""
                          THEN outcome.message
                                   \in {reply.body.text, reply.body.canonical}
                          ELSE reply.statusText # ""
                                   => outcome.message = reply.statusText

\* C29: a step that triggers the marker refresh while the bounds are known and
\* there are route choices (a bounds change, or a routing call installing its
\* route choices) sends exactly one marker request, and every marker request
\* is for the bounds current when it is sent; so a successful routing call with
\* known bounds sends exactly one.
C29_OneMarkerRequestPerTrigger ==
    [][/\ Len(markerLog') <= 1
       /\ \A i \in 1..Len(markerLog') : markerLog'[i].bounds = mapBounds'
       /\ ((\E bounds \in MarkBounds : handleBoundsChange(bounds))
           /\ Len(routeChoices) > 0)
              => Len(markerLog') = 1
       /\ (routeChoices' # routeChoices /\ Len(routeChoices') > 0
           /\ mapBounds' # nil)
              => Len(markerLog') = 1]_vars

(***************************************************************************)
(* SpecHazard: the hazard panel against the device location.  Location     *)
(* requests that succeed or fail, the pick toggle, map clicks, and hazard  *)
(* reports that are uploaded or rejected.                                  *)
(***************************************************************************)
ToggleHazardPickHazard ==
    /\ ~hazardInputsDisabled
    /\ toggleHazardPick
    /\ UNCHANGED <<aggVars, deviceVars, clickTrail, markerLog>>

HazardSubmit ==
    /\ ~hazardSubmitDisabled
    /\ \E valid \in BOOLEAN : handleHazardSubmit(valid)
    /\ UNCHANGED <<aggVars, deviceVars, clickTrail, markerLog>>

HazardSubmitSettles ==
    /\ \E ok \in BOOLEAN : hazardSubmitSettles(ok)
    /\ UNCHANGED <<aggVars, deviceVars, clickTrail, markerLog>>

NextHazard ==
    \/ RefreshLocation
    \/ LocationFix
    \/ LocationError
    \/ MapClick
    \/ ToggleHazardPickHazard
    \/ HazardSubmit
    \/ HazardSubmitSettles

SpecHazard == Init /\ [][NextHazard]_vars

\* C30 as stated: the hazard pick toggle can be used in every reachable state.
C30_ToggleAlwaysAvailable == ENABLED ToggleHazardPickHazard

\* C30 amended: the hazard pick toggle can be used exactly in the states where
\* geoStatus is 'ready' and no hazard upload is in progress, and each use flips
\* hazardPickMode and changes nothing else of the hazard panel.
C30_ToggleAvailableWhenReadyAndIdle ==
    /\ [](ENABLED ToggleHazardPickHazard
              <=> (geoStatus = "ready" /\ ~hazardUploading))
    /\ [][ToggleHazardPickHazard
              => /\ hazardPickMode' = ~hazardPickMode
                 /\ UNCHANGED <<hazardLocation, hazardUploading>>]_vars

\* the pick mode was switched on and a report is being uploaded: the toggle
\* cannot be used
C30_Witness ==
    /\ hazardPickMode
    /\ hazardUploading
    /\ geoStatus = "ready"
    /\ ~ENABLED ToggleHazardPickHazard

(***************************************************************************)
(* Invariants of the route state under interleaving (Spec).                *)
(***************************************************************************)
RouteIds == {routeChoices[i].id : i \in 1..Len(routeChoices)}

\* C31 (as the specification states it): every key of routeMarkers is the id of a
\* route choice of the current routeChoices, so routeMarkers is empty whenever
\* routeChoices is empty, also after a marker request of a routing call has
\* completed later than the route state was cleared.
C31_MarkerKeysAreRouteIds ==
    DOMAIN routeMarkers \subseteq RouteIds

\* C32 (as the specification states it): every kind of every route choice belongs
\* to the current travel mode, also when the mode was switched while the routing
\* call was in flight.
C32_KindsOfCurrentTravelMode ==
    \A i \in 1..Len(routeChoices) :
        Range(routeChoices[i].kinds) \subseteq Range(Variants(travelMode))

\* C33: when routeChoices is non-empty, selectedRouteId is not null: handleRoute
\* installs the choices and their default selection in one step, and nothing
\* sets the selection to null without emptying routeChoices.
C33_ChoicesHaveSelection ==
    /\ [](Len(routeChoices) > 0 => selectedRouteId # null)
    /\ [][selectedRouteId' = null => routeChoices' = <<>>]_vars

\* routes on display of which none holds the preferred kind of the mode, the
\* user having selected another one than the default
C33_Witness ==
    /\ Len(routeChoices) >= 2
    /\ \A i \in 1..Len(routeChoices) :
           PreferredKind(travelMode) \notin Range(routeChoices[i].kinds)
    /\ selectedRouteId = routeChoices[2].id

\* C34: pressing the button of another travel mode sets the mode, empties
\* routeChoices, selectedRouteId, routeMarkers and error and leaves start and end
\* as they were; pressing the button of the active mode changes nothing of the
\* component's state.
C34_ModeSwitchClearsSameModeIdle ==
    [][SwitchMode
          => IF travelMode' # travelMode
             THEN /\ RouteStateCleared'
                  /\ error' = null
                  /\ UNCHANGED <<start, end>>
             ELSE UNCHANGED <<start, end, travelMode, startPlace, endPlace,
                              routeChoices, selectedRouteId, routeMarkers,
                              mapBounds, loading, geocoding, error, geoStatus,
                              hasDefaultedStart, routeCall, routeMarkerFetches,
                              effectFetch, geoRequests, hazardVars,
                              reverseRequest>>]_vars

\* the mode was switched from WALK to DRIVE while a routing call was in flight:
\* the route state is empty and the points are those of the call
C34_Witness ==
    /\ travelMode = "DRIVE"
    /\ routeCall # nil
    /\ routeCall.mode = "WALK"
    /\ routeCall.params = [start |-> start, end |-> end]
    /\ RouteStateCleared
    /\ error = null

(***************************************************************************)
(* SpecLive: point selection, mode switches and routing, every variant     *)
(* request in flight settling at some time (fetchRouteVariant resolves on  *)
(* every path once the network has answered or failed).                    *)
(***************************************************************************)
NextLive ==
    \/ MapClick
    \/ EditStart
    \/ EditEnd
    \/ Clear
    \/ SwitchMode
    \/ Route
    \/ VariantSettles

\* ENABLED <<VariantSettles>>_vars: a call is in flight (it has an unsettled request
\* until its join removes it)
VariantSettlesEnabled == routeCall # nil

\* weak fairness of VariantSettles, WF_vars(VariantSettles), written out
VariantSettlesFair ==
    []<>(~VariantSettlesEnabled) \/ []<><<VariantSettles>>_vars

SpecLive == Init /\ [][NextLive]_vars /\ VariantSettlesFair

\* C35: a routing call starts only when none is in flight (the Route button is
\* disabled while loading), loading is true exactly while the call has unsettled
\* variant requests, and with every variant request settling at some time loading
\* returns to false.
C35_OneCallLoadingUntilJoin ==
    /\ [](loading => ~ENABLED Route)
    /\ [][Route => routeCall = nil]_vars
    /\ [](loading <=> (routeCall # nil /\ PendingIn(routeCall) # {}))
    /\ (loading ~> ~loading)

\* the user has pressed Clear during a routing call of which one request is
\* still unsettled: loading stays true
C35_Witness ==
    /\ loading
    /\ start = nil
    /\ end = nil
    /\ routeCall # nil
    /\ Cardinality(PendingIn(routeCall)) = 1

(***************************************************************************)
(* SpecEdit: coordinate edits with every kind of field text, against map   *)
(* clicks.  The map reports the clicked position as Leaflet computes it:   *)
(* on a copy of the world beyond the antimeridian its longitude is outside *)
(* [-180, 180].                                                            *)
(***************************************************************************)
WideClickPoints == {<<10, 10>>, <<10, 190>>}

\* an empty field, numbers in and out of range, text that is no finite number
WideEditTexts == {"", "10", "95", "1e999"}

MapClickWide ==
    /\ \E p \in WideClickPoints : mapClick(p[1], p[2])
    /\ UNCHANGED <<aggVars, deviceVars, clickTrail, markerLog>>

EditStartWide ==
    /\ \E lat \in WideEditTexts, lon \in WideEditTexts :
           updateStartFromInputs(lat, lon)
    /\ UNCHANGED otherVars

EditEndWide ==
    /\ \E lat \in WideEditTexts, lon \in WideEditTexts :
           updateEndFromInputs(lat, lon)
    /\ UNCHANGED otherVars

NextEdit ==
    \/ MapClickWide
    \/ EditStartWide
    \/ EditEndWide
    \/ Clear

SpecEdit == Init /\ [][NextEdit]_vars

\* both fields are finite numbers, the latitude in [-90, 90], the longitude in
\* [-180, 180]
InRangeTexts(lat, lon) ==
    /\ parseNumber(lat) # nil
    /\ parseNumber(lon) # nil
    /\ parseNumber(lat).value >= -90 /\ parseNumber(lat).value <= 90
    /\ parseNumber(lon).value >= -180 /\ parseNumber(lon).value <= 180

PointOfTexts(lat, lon) ==
    [lat |-> parseNumber(lat).value, lon |-> parseNumber(lon).value]

\* C36 (as the specification states it): a coordinate edit sets its point when
\* both fields parse to finite numbers in range and unsets it otherwise, leaving
\* the other point as it was; and in every state start and end are each null or
\* a coordinate in range.
C36_EditsValidatePointsInRange ==
    /\ [][\A lat \in WideEditTexts, lon \in WideEditTexts :
              /\ updateStartFromInputs(lat, lon)
                     => /\ start' = IF InRangeTexts(lat, lon)
                                    THEN PointOfTexts(lat, lon) ELSE nil
                        /\ UNCHANGED end
              /\ updateEndFromInputs(lat, lon)
                     => /\ end' = IF InRangeTexts(lat, lon)
                                  THEN PointOfTexts(lat, lon) ELSE nil
                        /\ UNCHANGED start]_vars
    /\ [](~OutOfRange(start) /\ ~OutOfRange(end))

(***************************************************************************)
(* SpecSearch: place searches against map clicks and routing.              *)
(***************************************************************************)
NextSearch ==
    \/ MapClickGeo
    \/ TypePlace
    \/ PlaceSearch
    \/ GeocodeSettles
    \/ Route
    \/ VariantSettlesGeo

SpecSearch == Init /\ [][NextSearch]_vars

FailingGeocodeResults ==
    {r \in GeocodeResults :
        r.kind # "ok" \/ OutOfRange(Point(r.data.lat, r.data.lon))}

\* C37: a geocode request that fails, or that answers with a coordinate out of
\* range, sets an error message and leaves start and end as they were; a place
\* search on an empty query sets an error message, dispatches no geocode request
\* and leaves the route state as it was.
C37_PlaceSearchFailures ==
    [][/\ \A kind \in {"start", "end"}, r \in FailingGeocodeResults :
              geocodeSettles(kind, r)
                  => /\ error' \notin {null, ""}
                     /\ UNCHANGED <<start, end>>
       /\ \A kind \in {"start", "end"} :
              (handlePlaceSearch(kind)
               /\ (IF kind = "start" THEN startPlace ELSE endPlace) = "")
                  => /\ error' \notin {null, ""}
                     /\ UNCHANGED <<geoRequests, geocoding, start, end,
                                    routeChoices, selectedRouteId,
                                    routeMarkers>>]_vars

\* the search for the typed start place was answered with a coordinate out of
\* range: the error is shown and start is still the clicked point
C37_Witness ==
    /\ error = "Geocoder returned out-of-range coordinates."
    /\ startPlace = "Ithaca Commons"
    /\ start = Point(10, 10)
    /\ geoRequests = [start |-> 0, end |-> 0]

(***************************************************************************)
(* SpecMarkScript: the marker requests of SpecMark against a marker        *)
(* service whose answers are fixed in advance: here oracle is the sequence *)
(* of the answers it will still give, each completing request taking the   *)
(* first, and results is the sequence of the answers given, each with the  *)
(* request that took it (by) and whether that request had been cancelled.  *)
(***************************************************************************)
MaxMarkerAnswers == 2

InitMarkScript ==
    /\ InitWith(Point(10, 10), Point(10, 95), "DRIVE")
    /\ oracle \in [1..MaxMarkerAnswers -> MarkerResponses]
    /\ results = <<>>

RouteMarkersSettleScript ==
    /\ oracle # <<>>
    /\ \E fetch \in routeMarkerFetches : routeMarkersSettle(fetch, Head(oracle))
    /\ oracle' = Tail(oracle)
    /\ results' = Append(results, [response |-> Head(oracle), by |-> "handleRoute",
                                   cancelled |-> FALSE])
    /\ markerLog' = EffectRequests(FALSE) \o RouteRequests
    /\ UNCHANGED <<hazardVars, deviceVars, clickTrail>>

EffectMarkersSettleScript ==
    /\ oracle # <<>>
    /\ effectMarkersSettle(Head(oracle))
    /\ oracle' = Tail(oracle)
    /\ results' = Append(results, [response |-> Head(oracle), by |-> "effect",
                                   cancelled |-> effectFetch.cancelled])
    /\ markerLog' = EffectRequests(FALSE) \o RouteRequests
    /\ UNCHANGED <<hazardVars, deviceVars, clickTrail>>

NextMarkScript ==
    \/ BoundsChangeMark
    \/ RouteMark
    \/ VariantSettlesMark
    \/ RouteMarkersSettleScript
    \/ EffectMarkersSettleScript

SpecMarkScript == InitMarkScript /\ [][NextMarkScript]_vars

\* C38: a marker request that completes with an error leaves routeMarkers as it
\* was and sets no error, so the markers of the last successful request stay on
\* the route choices.
C38_MarkerErrorKeepsMarkers ==
    [][(oracle # <<>> /\ oracle' = Tail(oracle) /\ Head(oracle).kind # "ok")
          => UNCHANGED <<routeMarkers, error, routeChoices, selectedRouteId>>]_vars

\* the marker service answered a request with markers and then a request that
\* was not cancelled with an error: the routes on display keep the markers of the
\* first answer and no error is shown
C38_Witness ==
    /\ Len(results) = 2
    /\ results[1].response.kind = "ok"
    /\ results[2].response.kind = "error"
    /\ ~results[2].cancelled
    /\ results[2].by = "effect"
    /\ Len(routeChoices) > 0
    /\ routeMarkers = Broadcast(routeChoices, results[1].response.data)
    /\ error = null

====
